---- MODULE Spec2Model ----
(***************************************************************************)
(* A model of the value log (key-value separated blob store):              *)
(* blob-file writers, the segment manifest with its atomic rewrite, the     *)
(* read path, recovery, and online garbage collection behind the GC gate.   *)
(*                                                                         *)
(* Keys are 1..MaxKey (one byte each), values are 1..MaxVal, value v being  *)
(* a byte string of length v. Maps (the segment map, the directory, the     *)
(* external index) are functions whose DOMAIN is the set of present keys.   *)
(***************************************************************************)
EXTENDS Integers, Sequences, FiniteSets, TLC

\* ---------------------------------------------------------------- bounds
MaxKey == 2
MaxVal == 2
\* records one multi-writer accepts from the caller
MaxWrites == 2
\* highest segment id the id generator may hand out
MaxId == 3
\* blob-cache capacity, in entries
CacheCap == 1
\* number of times the process may crash
MaxCrashes == 1
\* largest prefetch_size passed to get_with_prefetch
MaxPrefetch == 2
\* Config::segment_size_bytes: a file of offset >= this is rotated
TargetSize == 21

Keys == 1..MaxKey
Vals == 1..MaxVal
Ids == 0..MaxId
\* one thread runs the liveness scans; the other is the caller that writes,
\* registers its writers, rolls over and drops stale segments
Scanner == "scanner"
Worker == "worker"
Threads == {Scanner, Worker}

\* Option<UserKey>::None
NoKey == 0

\* ------------------------------------------------------- record layout
\* MAGIC(4) CHECKSUM(8) KEY_LEN(2) KEY VAL_LEN(4) VAL, as the reader parses it
BLOB_HEADER_LEN == 4
CHECKSUM_LEN == 8

KeyLen(k) == 1
ValLen(v) == v

RecordLen(k, v) == BLOB_HEADER_LEN + CHECKSUM_LEN + 2 + KeyLen(k) + 4 + ValLen(v)

\* byte offset of record i (1-based) in a file holding recs
RECURSIVE OffsetOf(_, _)
OffsetOf(recs, i) ==
    IF i <= 1 THEN 0
    ELSE OffsetOf(recs, i - 1) + RecordLen(recs[i - 1].key, recs[i - 1].val)

\* ------------------------------------------------------------ small helpers
Min(S) == CHOOSE x \in S : \A y \in S : x <= y
Max(S) == CHOOSE x \in S : \A y \in S : y <= x

RECURSIVE SetToSeq(_)
SetToSeq(S) == IF S = {} THEN <<>> ELSE <<Min(S)>> \o SetToSeq(S \ {Min(S)})

SeqToSet(s) == {s[i] : i \in 1..Len(s)}

\* a map without some keys
Without(m, D) == [x \in (DOMAIN m) \ D |-> m[x]]
\* a map with one binding set
With(m, k, v) == [x \in (DOMAIN m) \cup {k} |-> IF x = k THEN v ELSE m[x]]

Empty == <<>>

\* the GC gate when no thread holds it
Free == "free"
NotOpened == "none"
TRAILER_SIZE == 256

\* ---------------------------------------------------------------- state
VARIABLES
    \* --- disk (survives a crash)
    files,          \* segments/: id |-> [recs, meta, complete]
    manifest_file,  \* vlog_manifest: the words written, <<count, id, ...>>
    tmp_file,       \* rewrite_atomic's temp file: <<>> or <<words>>
    \* --- the external index (the caller's, durable)
    index,          \* key |-> [h, size, val]; val is the caller's own knowledge
    \* --- process memory (lost at a crash)
    up,             \* a ValueLog instance is open
    id,             \* ValueLogInner::id
    VLOG_ID_COUNTER,
    segments,       \* SegmentManifest::segments: id |-> Segment
    id_generator,
    rollover_guard, \* Free or the thread holding the mutex
    blob_cache,     \* set of [vid, h, val]
    writer,         \* the caller's open MultiWriter: <<>> or <<mw>>
    pc,             \* what each thread is executing
    t_writer,       \* per thread: the MultiWriter it registers / rolls into
    t_ids,          \* per thread: the ids it works on
    t_map,          \* per thread: Scanner::size_map, id |-> [size, item_count]
    t_queue,        \* per thread: what the merge reader still yields
    t_staged,       \* per thread: bindings staged in the index writer
    t_swap,         \* per thread: atomic_swap's working copy, <<>> or <<map>>
    t_before,       \* per thread: what get returned for each key when rollover began
    crashes,
    \* --- history (read by no action's guard)
    h_late,         \* ids registered between the last scan's snapshot and its return, and
                    \* not rolled over since
    h_rec,          \* <<>> or <<r>>: the rollover that failed or was cut by a crash, and
                    \* how far the scan and drop that follow it have come
    \* --- the lock view of the public operations
    segments_lock,  \* SegmentManifest::segments' RwLock: [readers, writer, waiting]
    call,           \* per thread: the operation it runs and its next lock instruction
    \* --- what the last ValueLog::open returned
    open_result,
    \* --- the last get_with_prefetch call: <<>> or <<[h, n, hit, ret, ins]>>
    h_get,
    \* --- the value log's directory: [marker, segments_folder, manifest]
    folder,
    \* --- what the last verify() returned: <<>> or <<n>>
    h_verify

disk_vars == <<files, manifest_file, tmp_file>>
mem_vars == <<up, id, VLOG_ID_COUNTER, segments, id_generator, rollover_guard,
              blob_cache, writer>>
thread_vars == <<pc, t_writer, t_ids, t_map, t_queue, t_staged, t_swap, t_before>>
vars == <<files, manifest_file, tmp_file, index, up, id, VLOG_ID_COUNTER, segments,
          id_generator, rollover_guard, blob_cache, writer, pc, t_writer, t_ids,
          t_map, t_queue, t_staged, t_swap, t_before, crashes, h_late, h_rec,
          segments_lock, call, open_result, h_get, folder, h_verify>>
hist_vars == <<h_late, h_rec>>
lock_vars == <<segments_lock, call>>

\* ------------------------------------------------------------ blob files
NoMeta == [item_count |-> 0, compressed_bytes |-> 0, total_uncompressed_bytes |-> 0,
           key_range |-> <<NoKey, NoKey>>]

\* File::create: an empty file without trailer
CreatedFile == [recs |-> <<>>, meta |-> NoMeta, complete |-> FALSE]

\* the 64-bit xxh3 digest of key and value, here over 6 bits
Xxh3(k, v) == (31 * k + 17 * v + 5) % 64

\* the configured compressor (none): bytes in, bytes out
Compress(v) == v
Decompress(v) == v

Writer_new(segment_id) ==
    [segment_id |-> segment_id, offset |-> 0, item_count |-> 0,
     written_blob_bytes |-> 0, uncompressed_bytes |-> 0,
     first_key |-> NoKey, last_key |-> NoKey, recs |-> <<>>]

\* a writer whose cursor does not count the checksum bytes it wrote
Writer_write_short(w, k, v) ==
    [w EXCEPT !.first_key = IF w.first_key = NoKey THEN k ELSE w.first_key,
              !.last_key = k,
              !.uncompressed_bytes = w.uncompressed_bytes + ValLen(v),
              !.recs = Append(w.recs, [key |-> k, val |-> Compress(v),
                                      checksum |-> Xxh3(k, Compress(v))]),
              !.offset = w.offset + RecordLen(k, Compress(v)) - CHECKSUM_LEN,
              !.written_blob_bytes = w.written_blob_bytes + ValLen(Compress(v)),
              !.item_count = w.item_count + 1]

\* Writer::write: one record appended, the counters and the key range updated
Writer_write(w, k, v) ==
    [w EXCEPT !.first_key = IF w.first_key = NoKey THEN k ELSE w.first_key,
              !.last_key = k,
              !.uncompressed_bytes = w.uncompressed_bytes + ValLen(v),
              !.recs = Append(w.recs, [key |-> k, val |-> Compress(v),
                                      checksum |-> Xxh3(k, Compress(v))]),
              !.offset = w.offset + RecordLen(k, Compress(v)),
              !.written_blob_bytes = w.written_blob_bytes + ValLen(Compress(v)),
              !.item_count = w.item_count + 1]

Writer_meta(w) ==
    [item_count |-> w.item_count, compressed_bytes |-> w.written_blob_bytes,
     total_uncompressed_bytes |-> w.uncompressed_bytes,
     key_range |-> <<w.first_key, w.last_key>>]

\* Writer::flush: metadata block and trailer appended, buffer flushed, fsync
Writer_flush(w) == [recs |-> w.recs, meta |-> Writer_meta(w), complete |-> TRUE]

\* ---------------------------------------------------------- multi-writer
Last(s) == s[Len(s)]
SetLast(s, x) == [s EXCEPT ![Len(s)] = x]

\* MultiWriter::new: the first file of the chain; staged is the caller's batch of
\* index bindings for the handles it was given
MultiWriter_new(segment_id) == [writers |-> <<Writer_new(segment_id)>>, staged |-> <<>>]

\* the handle of the next record: (file id, write cursor) of the active file
get_next_value_handle(mw) ==
    [segment_id |-> Last(mw.writers).segment_id, offset |-> Last(mw.writers).offset]

\* whether the active file reaches the target size with this record
Rotates(w, k, v) == Writer_write(w, k, v).offset >= TargetSize

\* a rotation that opens the next file without advancing the generator
MultiWriter_write_reuse(mw, k, v, fs, gen) ==
    LET w1 == Writer_write(Last(mw.writers), k, v)
    IN IF w1.offset >= TargetSize
       THEN [mw |-> [mw EXCEPT !.writers = Append(SetLast(mw.writers, w1), Writer_new(gen))],
             files |-> With(With(fs, w1.segment_id, Writer_flush(w1)), gen, CreatedFile),
             gen |-> gen]
       ELSE [mw |-> [mw EXCEPT !.writers = SetLast(mw.writers, w1)],
             files |-> fs, gen |-> gen]

\* a write that never rotates
MultiWriter_write_same(mw, k, v, fs, gen) ==
    [mw |-> [mw EXCEPT !.writers = SetLast(mw.writers, Writer_write(Last(mw.writers), k, v))],
     files |-> fs, gen |-> gen]

\* MultiWriter::write with files fs and id generator gen; yields the new
\* multi-writer, directory and generator
MultiWriter_write(mw, k, v, fs, gen) ==
    LET w1 == Writer_write(Last(mw.writers), k, v)
    IN IF w1.offset >= TargetSize
       THEN [mw |-> [mw EXCEPT !.writers = Append(SetLast(mw.writers, w1), Writer_new(gen))],
             files |-> With(With(fs, w1.segment_id, Writer_flush(w1)), gen, CreatedFile),
             gen |-> gen + 1]
       ELSE [mw |-> [mw EXCEPT !.writers = SetLast(mw.writers, w1)],
             files |-> fs, gen |-> gen]

\* a finish that leaves the active file unflushed
MultiWriter_finish_skip(mw, fs) == fs

\* MultiWriter::finish: the active file is flushed if it holds a record
MultiWriter_finish(mw, fs) ==
    LET w == Last(mw.writers)
    IN IF w.item_count > 0 THEN With(fs, w.segment_id, Writer_flush(w)) ELSE fs

\* ---------------------------------------------------------------- reading
\* the index (1-based) of the record that starts at byte offset off, 0 if none
RecordAt(recs, off) ==
    LET S == {i \in 1..Len(recs) : OffsetOf(recs, i) = off}
    IN IF S = {} THEN 0 ELSE Min(S)

\* a lookup by handle alone
CacheHit_any(vid, h) == {e \in blob_cache : e.h = h}

CacheHit(vid, h) == {e \in blob_cache : e.vid = vid /\ e.h = h}

\* ValueLog::get_with_prefetch(h, 0): what the call returns
\*   [tag |-> "some", val |-> v], [tag |-> "none"] or [tag |-> "err"]
GetResult(h) ==
    IF CacheHit(id, h) # {}
    THEN [tag |-> "some", val |-> (CHOOSE e \in CacheHit(id, h) : TRUE).val]
    ELSE IF h.segment_id \notin DOMAIN segments
    THEN [tag |-> "none", val |-> 0]
    ELSE IF h.segment_id \notin DOMAIN files
    THEN [tag |-> "err", val |-> 0]
    ELSE LET recs == files[h.segment_id].recs
             i == RecordAt(recs, h.offset)
         IN IF i = 0 THEN [tag |-> "err", val |-> 0]
            ELSE [tag |-> "some", val |-> Decompress(recs[i].val)]

\* BlobCache::insert: at capacity some entry makes room
CacheInsert(c, e) ==
    LET c0 == {x \in c : ~(x.vid = e.vid /\ x.h = e.h)}
    IN IF Cardinality(c0) < CacheCap THEN {c0 \cup {e}}
       ELSE {(c0 \ {x}) \cup {e} : x \in c0}

\* ------------------------------------------------------------- manifest
\* SegmentManifest::write_to_disk: u64 count, then the ids
EncodeIds(ids) == <<Cardinality(ids)>> \o SetToSeq(ids)

\* the ids a manifest file lists after its count word
ListedIds(words) == {words[i] : i \in 2..Len(words)}

\* a loader that reads one id fewer than the count announces
load_ids_short(words) ==
    IF Len(words) = 0 THEN [ok |-> FALSE, ids |-> <<>>]
    ELSE IF Len(words) < 1 + words[1] THEN [ok |-> FALSE, ids |-> <<>>]
    ELSE [ok |-> TRUE, ids |-> SubSeq(words, 2, words[1])]

\* SegmentManifest::load_ids_from_disk: [ok, ids]; a read past the end is an error
load_ids_from_disk(words) ==
    IF Len(words) = 0 THEN [ok |-> FALSE, ids |-> <<>>]
    ELSE IF Len(words) < 1 + words[1] THEN [ok |-> FALSE, ids |-> <<>>]
    ELSE [ok |-> TRUE, ids |-> SubSeq(words, 2, 1 + words[1])]

\* a registration whose segments start with their counters at the item count
SegmentOf_stale(w) ==
    [meta |-> Writer_meta(w), stale_items |-> Writer_meta(w).item_count,
     stale_bytes |-> Writer_meta(w).total_uncompressed_bytes]

\* the Segment that SegmentManifest::register builds from a finished writer
SegmentOf(w) == [meta |-> Writer_meta(w), stale_items |-> 0, stale_bytes |-> 0]

\* a closure that inserts every writer of the chain
RegisterRecipe_all(map, ws) ==
    LET byId == [s \in {ws[i].segment_id : i \in 1..Len(ws)} |->
                    SegmentOf(ws[CHOOSE i \in 1..Len(ws) : ws[i].segment_id = s])]
    IN [s \in (DOMAIN map) \cup (DOMAIN byId) |->
            IF s \in DOMAIN byId THEN byId[s] ELSE map[s]]

\* the working copy after register's closure: every writer with a record inserted
RegisterRecipe(map, ws) ==
    LET full == {i \in 1..Len(ws) : ws[i].item_count > 0}
        byId == [s \in {ws[i].segment_id : i \in full} |->
                    SegmentOf(ws[CHOOSE i \in full : ws[i].segment_id = s])]
    IN [s \in (DOMAIN map) \cup (DOMAIN byId) |->
            IF s \in DOMAIN byId THEN byId[s] ELSE map[s]]

\* ids of the writers that wrote nothing: register's closure deletes their files
EmptyWriterIds(ws) == {ws[i].segment_id : i \in {j \in 1..Len(ws) : ws[j].item_count = 0}}

Segment_is_stale(seg) == seg.stale_items = seg.meta.item_count

Segment_mark_as_stale(seg) ==
    [seg EXCEPT !.stale_items = seg.meta.item_count,
                !.stale_bytes = seg.meta.total_uncompressed_bytes]

\* ------------------------------------------------------------ positions
Idle == [op |-> "idle", at |-> "idle"]
At(t, op, at) == pc[t] = [op |-> op, at |-> at]
Goto(t, op, at) == pc' = [pc EXCEPT ![t] = [op |-> op, at |-> at]]

SwapSteps == {"swap_create", "swap_write", "swap_write_ids", "swap_rename", "swap_publish"}
\* a thread inside atomic_swap holds the segment map's write lock
SwapInProgress == \E t \in Threads : pc[t].at \in SwapSteps

\* ---------------------------------------------------------------- history
\* ids of the files a multi-writer (<<>> or <<mw>>) has created
ChainIds(opt) ==
    IF opt = <<>> THEN {}
    ELSE {opt[1].writers[i].segment_id : i \in 1..Len(opt[1].writers)}

\* ids of the files of a multi-writer that hold a record: the ones register lists
NewIds(opt) ==
    IF opt = <<>> THEN {}
    ELSE {opt[1].writers[i].segment_id :
            i \in {j \in 1..Len(opt[1].writers) : opt[1].writers[j].item_count > 0}}

Advance(rec, from, to) ==
    IF rec # <<>> /\ rec[1].phase = from THEN <<[rec[1] EXCEPT !.phase = to]>> ELSE rec

\* the same for the record of an apply_gc_strategy(SpaceAmp) or major_compact
\* call, which is given up when the operations do not follow in the order rollover, drop, scan
AmpAdvance(rec, from, to) ==
    IF rec = <<>> \/ rec[1].kind \notin {"space_amp", "major"} THEN rec
    ELSE IF rec[1].phase = from THEN <<[rec[1] EXCEPT !.phase = to]>>
    ELSE <<>>

\* -------------------------------------------------------------- initially
\* the directory of a value log: the .vlog marker ("absent", "empty" once
\* File::create has run, "v1" with the version header), segments/, vlog_manifest
Blank == [marker |-> "absent", segments_folder |-> FALSE, manifest |-> FALSE]
Created == [marker |-> "v1", segments_folder |-> TRUE, manifest |-> TRUE]

\* a freshly created value log: open() took the create_new path
Init ==
    /\ files = Empty
    /\ manifest_file = EncodeIds({})
    /\ tmp_file = <<>>
    /\ index = Empty
    /\ up = TRUE
    /\ id = 0
    /\ VLOG_ID_COUNTER = 1
    /\ segments = Empty
    /\ id_generator = 0
    /\ rollover_guard = Free
    /\ blob_cache = {}
    /\ writer = <<>>
    /\ pc = [t \in Threads |-> Idle]
    /\ t_writer = [t \in Threads |-> <<>>]
    /\ t_ids = [t \in Threads |-> {}]
    /\ t_map = [t \in Threads |-> Empty]
    /\ t_queue = [t \in Threads |-> <<>>]
    /\ t_staged = [t \in Threads |-> <<>>]
    /\ t_swap = [t \in Threads |-> <<>>]
    /\ t_before = [t \in Threads |-> Empty]
    /\ crashes = 0
    /\ h_late = {}
    /\ h_rec = <<>>
    /\ segments_lock = [readers |-> [t \in Threads |-> 0], writer |-> Free, waiting |-> {}]
    /\ call = [t \in Threads |-> [op |-> "idle", i |-> 0, parked |-> FALSE]]
    /\ open_result = "Ok"
    /\ h_get = <<>>
    /\ h_verify = <<>>
    /\ folder = Created

\* ------------------------------------------------------ the caller's writer
\* ValueLog::get_writer
GetWriter ==
    /\ up /\ writer = <<>>
    /\ pc[Worker] = Idle
    /\ id_generator <= MaxId
    /\ writer' = <<MultiWriter_new(id_generator)>>
    /\ files' = With(files, id_generator, CreatedFile)
    /\ id_generator' = id_generator + 1
    /\ UNCHANGED <<manifest_file, tmp_file, index, up, id, VLOG_ID_COUNTER, segments,
                   rollover_guard, blob_cache, crashes>>
    /\ UNCHANGED thread_vars
    /\ h_rec' = IF h_rec # <<>> /\ h_rec[1].kind = "crashed" THEN <<>> ELSE h_rec
    /\ UNCHANGED h_late
    /\ UNCHANGED lock_vars
    /\ UNCHANGED h_get
    /\ UNCHANGED h_verify
    /\ UNCHANGED folder
    /\ UNCHANGED open_result

\* the caller takes the next handle, stages key -> handle, and writes the record
Write(k, v) ==
    /\ up /\ writer # <<>>
    /\ pc[Worker] = Idle
    /\ Len(writer[1].staged) < MaxWrites
    /\ Rotates(Last(writer[1].writers), k, v) => id_generator <= MaxId
    /\ LET mw == writer[1]
           h == get_next_value_handle(mw)
           r == MultiWriter_write(mw, k, v, files, id_generator)
       IN /\ writer' = <<[r.mw EXCEPT !.staged =
                            Append(mw.staged, [key |-> k, h |-> h, size |-> ValLen(v), val |-> v])]>>
          /\ files' = r.files
          /\ id_generator' = r.gen
    /\ UNCHANGED <<manifest_file, tmp_file, index, up, id, VLOG_ID_COUNTER, segments,
                   rollover_guard, blob_cache, crashes>>
    /\ UNCHANGED thread_vars
    /\ UNCHANGED hist_vars
    /\ UNCHANGED lock_vars
    /\ UNCHANGED h_get
    /\ UNCHANGED h_verify
    /\ UNCHANGED folder
    /\ UNCHANGED open_result

\* ------------------------------------------------------------------ get
\* handles a caller can hold: staged by a writer or bound in the index
StagedHandles(opt) ==
    UNION {{opt[i].staged[j].h : j \in 1..Len(opt[i].staged)} : i \in 1..Len(opt)}

KnownHandles ==
    {index[k].h : k \in DOMAIN index}
    \cup StagedHandles(writer)
    \cup UNION {StagedHandles(t_writer[t]) : t \in Threads}

\* a get that takes the gate for its lookup
Get_gated(h) ==
    /\ up /\ ~SwapInProgress
    /\ rollover_guard = Free
    /\ CacheHit(id, h) = {}
    /\ GetResult(h).tag = "some"
    /\ blob_cache' \in CacheInsert(blob_cache, [vid |-> id, h |-> h, val |-> GetResult(h).val])
    /\ UNCHANGED <<files, manifest_file, tmp_file, index, up, id, VLOG_ID_COUNTER, segments,
                   id_generator, rollover_guard, writer, crashes>>
    /\ UNCHANGED thread_vars
    /\ UNCHANGED hist_vars
    /\ UNCHANGED lock_vars
    /\ UNCHANGED h_get
    /\ UNCHANGED h_verify
    /\ UNCHANGED folder
    /\ UNCHANGED open_result

\* ValueLog::get: the value is returned and inserted into the blob cache
Get(h) ==
    /\ up /\ ~SwapInProgress
    /\ CacheHit(id, h) = {}
    /\ GetResult(h).tag = "some"
    /\ blob_cache' \in CacheInsert(blob_cache, [vid |-> id, h |-> h, val |-> GetResult(h).val])
    /\ UNCHANGED <<files, manifest_file, tmp_file, index, up, id, VLOG_ID_COUNTER, segments,
                   id_generator, rollover_guard, writer, crashes>>
    /\ UNCHANGED thread_vars
    /\ UNCHANGED hist_vars
    /\ UNCHANGED lock_vars
    /\ UNCHANGED h_get
    /\ UNCHANGED h_verify
    /\ UNCHANGED folder
    /\ UNCHANGED open_result

RECURSIVE PrefetchLoop_after(_, _, _, _, _)
\* a loop that takes the stream position after reading the record
PrefetchLoop_after(recs, j, pos, n, s) ==
    IF n = 0 \/ j > Len(recs) THEN <<>>
    ELSE <<[vid |-> id,
            h |-> [segment_id |-> s, offset |-> pos + RecordLen(recs[j].key, recs[j].val)],
            val |-> Decompress(recs[j].val)]>>
         \o PrefetchLoop_after(recs, j + 1, pos + RecordLen(recs[j].key, recs[j].val), n - 1, s)

RECURSIVE PrefetchLoop(_, _, _, _, _)
\* the prefetch loop with the reader at record j (byte pos) of file s and n
\* rounds left: get_offset, next, insert; next() is None at the metadata marker
PrefetchLoop(recs, j, pos, n, s) ==
    IF n = 0 \/ j > Len(recs) THEN <<>>
    ELSE <<[vid |-> id, h |-> [segment_id |-> s, offset |-> pos],
            val |-> Decompress(recs[j].val)]>>
         \o PrefetchLoop(recs, j + 1, pos + RecordLen(recs[j].key, recs[j].val), n - 1, s)

\* the entries get_with_prefetch(h, n) inserts, in order: none on a cache hit
\* and when nothing is read
Prefetched(h, n) ==
    IF CacheHit(id, h) # {} \/ GetResult(h).tag # "some" THEN <<>>
    ELSE LET recs == files[h.segment_id].recs
             i == RecordAt(recs, h.offset)
         IN <<[vid |-> id, h |-> h, val |-> Decompress(recs[i].val)]>>
            \o PrefetchLoop(recs, i + 1, h.offset + RecordLen(recs[i].key, recs[i].val),
                            n, h.segment_id)

RECURSIVE InsertAll(_, _)
\* the caches a sequence of BlobCache::insert calls can leave
InsertAll(c, es) ==
    IF es = <<>> THEN {c}
    ELSE UNION {InsertAll(c1, Tail(es)) : c1 \in CacheInsert(c, Head(es))}

\* ValueLog::get_with_prefetch(h, n)
GetWithPrefetch(h, n) ==
    /\ up /\ ~SwapInProgress
    /\ blob_cache' \in InsertAll(blob_cache, Prefetched(h, n))
    /\ h_get' = <<[h |-> h, n |-> n, hit |-> CacheHit(id, h) # {}, ret |-> GetResult(h),
                   ins |-> Prefetched(h, n)]>>
    /\ UNCHANGED <<files, manifest_file, tmp_file, index, up, id, VLOG_ID_COUNTER, segments,
                   id_generator, rollover_guard, writer, crashes>>
    /\ UNCHANGED thread_vars
    /\ UNCHANGED hist_vars
    /\ UNCHANGED lock_vars
    /\ UNCHANGED open_result
    /\ UNCHANGED folder
    /\ UNCHANGED h_verify

\* -------------------------------------------------------- atomic rewrite
\* a rewrite that truncates and writes vlog_manifest itself
rewrite_in_place(step, content, mf, tf) ==
    CASE step = "swap_create"    -> [manifest |-> <<>>, tmp |-> tf]
      [] step = "swap_write"     -> [manifest |-> SubSeq(content, 1, 1), tmp |-> tf]
      [] step = "swap_write_ids" -> [manifest |-> content, tmp |-> tf]
      [] OTHER                   -> [manifest |-> mf, tmp |-> tf]

\* rewrite_atomic, one file-system call at a time: the temp file is created,
\* written (the count word, then the ids), and renamed onto vlog_manifest.
\* Yields the manifest file and the temp file after the step.
rewrite_atomic(step, content, mf, tf) ==
    CASE step = "swap_create"    -> [manifest |-> mf, tmp |-> << <<>> >>]
      [] step = "swap_write"     -> [manifest |-> mf, tmp |-> <<SubSeq(content, 1, 1)>>]
      [] step = "swap_write_ids" -> [manifest |-> mf, tmp |-> <<content>>]
      [] OTHER                   -> [manifest |-> tf[1], tmp |-> <<>>]

NextSwapStep(step) ==
    CASE step = "swap_create"    -> "swap_write"
      [] step = "swap_write"     -> "swap_write_ids"
      [] step = "swap_write_ids" -> "swap_rename"
      [] OTHER                   -> "swap_publish"

\* atomic_swap persisting the working copy's ids (write_to_disk)
SwapStep(t) ==
    /\ up
    /\ pc[t].at \in {"swap_create", "swap_write", "swap_write_ids", "swap_rename"}
    /\ LET r == rewrite_atomic(pc[t].at, EncodeIds(DOMAIN t_swap[t][1]), manifest_file, tmp_file)
       IN /\ manifest_file' = r.manifest
          /\ tmp_file' = r.tmp
    /\ Goto(t, pc[t].op, NextSwapStep(pc[t].at))
    /\ UNCHANGED <<files, index, up, id, VLOG_ID_COUNTER, segments, id_generator,
                   rollover_guard, blob_cache, writer, crashes>>
    /\ UNCHANGED <<t_writer, t_ids, t_map, t_queue, t_staged, t_swap, t_before>>
    /\ UNCHANGED hist_vars
    /\ UNCHANGED lock_vars
    /\ UNCHANGED h_get
    /\ UNCHANGED h_verify
    /\ UNCHANGED folder
    /\ UNCHANGED open_result

\* atomic_swap publishing the working copy and releasing the write lock
SwapPublish(t) ==
    /\ up
    /\ pc[t].at = "swap_publish"
    /\ segments' = t_swap[t][1]
    /\ t_swap' = [t_swap EXCEPT ![t] = <<>>]
    /\ Goto(t, pc[t].op, "swapped")
    /\ UNCHANGED <<files, manifest_file, tmp_file, index, up, id, VLOG_ID_COUNTER,
                   id_generator, rollover_guard, blob_cache, writer, crashes>>
    /\ UNCHANGED <<t_writer, t_ids, t_map, t_queue, t_staged, t_before>>
    /\ h_late' = IF pc[Scanner].op = "scan"
                 THEN h_late \cup ((DOMAIN t_swap[t][1]) \ (DOMAIN segments))
                 ELSE h_late
    /\ UNCHANGED h_rec
    /\ UNCHANGED lock_vars
    /\ UNCHANGED h_get
    /\ UNCHANGED h_verify
    /\ UNCHANGED folder
    /\ UNCHANGED open_result

\* ------------------------------------------------------- register_writer
RECURSIVE ApplyStaged(_, _)
\* the index after the bindings of a batch are committed, in order
ApplyStaged(ix, staged) ==
    IF staged = <<>> THEN ix
    ELSE ApplyStaged(With(ix, staged[1].key,
                          [h |-> staged[1].h, size |-> staged[1].size, val |-> staged[1].val]),
                     Tail(staged))

\* register_writer: the gate is taken, then SegmentManifest::register finishes
\* the writer chain
RegisterBegin(t) ==
    /\ up /\ pc[t] = Idle /\ t = Worker
    /\ writer # <<>>
    /\ rollover_guard = Free
    /\ rollover_guard' = t
    /\ t_writer' = [t_writer EXCEPT ![t] = writer]
    /\ writer' = <<>>
    /\ files' = MultiWriter_finish(writer[1], files)
    /\ Goto(t, "register", "recipe")
    /\ UNCHANGED <<manifest_file, tmp_file, index, up, id, VLOG_ID_COUNTER, segments,
                   id_generator, blob_cache, crashes>>
    /\ UNCHANGED <<t_ids, t_map, t_queue, t_staged, t_swap, t_before>>
    /\ h_rec' = <<>>
    /\ UNCHANGED h_late
    /\ UNCHANGED lock_vars
    /\ UNCHANGED h_get
    /\ UNCHANGED h_verify
    /\ UNCHANGED folder
    /\ UNCHANGED open_result

\* SegmentManifest::register entering atomic_swap (for register_writer and for
\* rollover): write lock, working copy, files of empty writers deleted
RegisterRecipe_step(t) ==
    /\ up
    /\ pc[t].at = "recipe"
    /\ ~SwapInProgress
    /\ t_swap' = [t_swap EXCEPT ![t] = <<RegisterRecipe(segments, t_writer[t][1].writers)>>]
    /\ files' = Without(files, EmptyWriterIds(t_writer[t][1].writers))
    /\ Goto(t, pc[t].op, "swap_create")
    /\ UNCHANGED <<manifest_file, tmp_file, index, up, id, VLOG_ID_COUNTER, segments,
                   id_generator, rollover_guard, blob_cache, writer, crashes>>
    /\ UNCHANGED <<t_writer, t_ids, t_map, t_queue, t_staged, t_before>>
    /\ UNCHANGED hist_vars
    /\ UNCHANGED lock_vars
    /\ UNCHANGED h_get
    /\ UNCHANGED h_verify
    /\ UNCHANGED folder
    /\ UNCHANGED open_result

\* register_writer returns: the gate is released; the caller, which serialises
\* its index commit with garbage collection, binds the staged handles
RegisterDone(t) ==
    /\ up
    /\ At(t, "register", "swapped")
    /\ rollover_guard' = Free
    /\ index' = ApplyStaged(index, t_writer[t][1].staged)
    /\ t_writer' = [t_writer EXCEPT ![t] = <<>>]
    /\ pc' = [pc EXCEPT ![t] = Idle]
    /\ UNCHANGED <<files, manifest_file, tmp_file, up, id, VLOG_ID_COUNTER, segments,
                   id_generator, blob_cache, writer, crashes>>
    /\ UNCHANGED <<t_ids, t_map, t_queue, t_staged, t_swap, t_before>>
    /\ UNCHANGED hist_vars
    /\ UNCHANGED lock_vars
    /\ UNCHANGED h_get
    /\ UNCHANGED h_verify
    /\ UNCHANGED folder
    /\ UNCHANGED open_result

\* ------------------------------------------------------- crash and reopen
\* the process dies: memory is lost, the disk and the caller's index stay
Crash ==
    /\ up
    /\ crashes < MaxCrashes
    /\ crashes' = crashes + 1
    /\ up' = FALSE
    /\ segments' = Empty
    /\ rollover_guard' = Free
    /\ writer' = <<>>
    /\ pc' = [t \in Threads |-> Idle]
    /\ t_writer' = [t \in Threads |-> <<>>]
    /\ t_ids' = [t \in Threads |-> {}]
    /\ t_map' = [t \in Threads |-> Empty]
    /\ t_queue' = [t \in Threads |-> <<>>]
    /\ t_staged' = [t \in Threads |-> <<>>]
    /\ t_swap' = [t \in Threads |-> <<>>]
    /\ t_before' = [t \in Threads |-> Empty]
    /\ UNCHANGED <<files, manifest_file, tmp_file, index, id, VLOG_ID_COUNTER,
                   id_generator, blob_cache>>
    /\ h_late' = {}
    /\ h_rec' = IF pc[Worker].op = "rollover" /\ pc[Worker].at \notin {"mark", "done", "failed"}
                THEN <<[kind |-> "crashed", new |-> ChainIds(t_writer[Worker]),
                        old |-> t_ids[Worker], before |-> segments, phase |-> "down"]>>
                ELSE <<>>
    /\ open_result' = NotOpened
    /\ UNCHANGED lock_vars
    /\ UNCHANGED h_get
    /\ UNCHANGED h_verify
    /\ UNCHANGED folder

\* a cleanup that unlinks nothing
remove_unfinished_none(fs, registered_ids) == fs

\* SegmentManifest::remove_unfinished_segments
remove_unfinished_segments(fs, registered_ids) ==
    [s \in (DOMAIN fs) \cap registered_ids |-> fs[s]]

\* SegmentFileTrailer::from_file succeeds: the file exists and ends in a trailer
TrailerOk(fs, s) == s \in DOMAIN fs /\ fs[s].complete

\* whether SegmentManifest::recover succeeds on this disk
RecoverOk(mf, fs) ==
    /\ load_ids_from_disk(mf).ok
    /\ \A s \in SeqToSet(load_ids_from_disk(mf).ids) : TrailerOk(fs, s)

\* a blob file's length in bytes before metadata and trailer are appended
FileLen(f) == OffsetOf(f.recs, Len(f.recs) + 1)

\* what SegmentFileTrailer::from_file returns for segment s: File::open or the
\* seek to TRAILER_SIZE bytes before the end fails with an I/O error, a file long
\* enough without the trailer magic is a deserialization error
from_file(fs, s) ==
    IF s \notin DOMAIN fs THEN "Io"
    ELSE IF fs[s].complete THEN "Ok"
    ELSE IF FileLen(fs[s]) < TRAILER_SIZE THEN "Io"
    ELSE "Deserialize"

RECURSIVE FirstError(_, _, _)
\* the loop of SegmentManifest::recover: `?` returns the first error
FirstError(fs, ids, i) ==
    IF i > Len(ids) THEN "Ok"
    ELSE IF from_file(fs, ids[i]) # "Ok" THEN from_file(fs, ids[i])
    ELSE FirstError(fs, ids, i + 1)

\* what SegmentManifest::recover returns, as the kind of crate::Error or "Ok"
recover_result(mf, fs) ==
    LET l == load_ids_from_disk(mf)
    IN IF ~l.ok THEN "Io"
       ELSE IF FirstError(fs, l.ids, 1) # "Ok" THEN FirstError(fs, l.ids, 1)
       ELSE IF Cardinality(SeqToSet(l.ids)) < Len(l.ids) THEN "Unrecoverable"
       ELSE "Ok"

\* while the value log is closed a registered blob file is removed from
\* segments/, or cut back to its records
Damage ==
    /\ ~up
    /\ \E s \in DOMAIN files \cap ListedIds(manifest_file) :
          \/ files' = Without(files, {s})
          \/ /\ files[s].complete
             /\ files' = With(files, s, [files[s] EXCEPT !.complete = FALSE, !.meta = NoMeta])
    /\ open_result' = NotOpened
    /\ UNCHANGED <<manifest_file, tmp_file, index, up, id, VLOG_ID_COUNTER, segments,
                   id_generator, rollover_guard, blob_cache, writer, crashes>>
    /\ UNCHANGED thread_vars
    /\ UNCHANGED hist_vars
    /\ UNCHANGED lock_vars
    /\ UNCHANGED h_get
    /\ UNCHANGED h_verify
    /\ UNCHANGED folder

\* ValueLog::open on an existing value log (recover)
Open ==
    /\ ~up /\ pc[Worker] = Idle
    /\ folder.marker = "v1"
    /\ LET l == load_ids_from_disk(manifest_file)
           ids == SeqToSet(l.ids)
       IN IF ~l.ok
          THEN UNCHANGED <<files, up, id, VLOG_ID_COUNTER, segments, id_generator>>
          ELSE /\ files' = remove_unfinished_segments(files, ids)
               /\ IF \A s \in ids : TrailerOk(remove_unfinished_segments(files, ids), s)
                  THEN /\ up' = TRUE
                       /\ segments' = [s \in ids |->
                              [meta |-> files[s].meta, stale_items |-> 0, stale_bytes |-> 0]]
                       /\ id_generator' = (IF ids = {} THEN 0 ELSE Max(ids)) + 1
                       /\ id' = VLOG_ID_COUNTER
                       /\ VLOG_ID_COUNTER' = VLOG_ID_COUNTER + 1
                  ELSE UNCHANGED <<up, id, VLOG_ID_COUNTER, segments, id_generator>>
    /\ UNCHANGED <<manifest_file, tmp_file, index, rollover_guard, blob_cache, writer, crashes>>
    /\ UNCHANGED thread_vars
    /\ h_rec' = IF up' THEN Advance(h_rec, "down", "start") ELSE h_rec
    /\ UNCHANGED h_late
    /\ open_result' = recover_result(manifest_file, files)
    /\ UNCHANGED lock_vars
    /\ UNCHANGED h_get
    /\ UNCHANGED h_verify
    /\ UNCHANGED folder

\* the keys whose index handle points into segment s
RefKeys(s) == {k \in DOMAIN index : index[k].h.segment_id = s}

RECURSIVE RefBytes(_)
\* the sizes the index holds for a set of keys, summed
RefBytes(ks) ==
    IF ks = {} THEN 0
    ELSE LET k == Min(ks) IN index[k].size + RefBytes(ks \ {k})

\* the stale counters of segment s are the ones the index implies
CountersMatchIndex(s) ==
    /\ segments[s].stale_items = segments[s].meta.item_count - Cardinality(RefKeys(s))
    /\ segments[s].stale_bytes = segments[s].meta.total_uncompressed_bytes - RefBytes(RefKeys(s))

\* --------------------------------------------------------- liveness scan
NoCounter == [size |-> 0, item_count |-> 0]

RECURSIVE ScanIndex_last(_, _, _)
\* a scan that keeps, per file id, the last handle seen only
ScanIndex_last(map, ix, ks) ==
    IF ks = {} THEN map
    ELSE LET k == Min(ks)
         IN ScanIndex_last(With(map, ix[k].h.segment_id, [size |-> ix[k].size, item_count |-> 1]),
                           ix, ks \ {k})

RECURSIVE ScanIndex_twice(_, _, _)
\* a scan over an iterator that yields every handle twice
ScanIndex_twice(map, ix, ks) ==
    IF ks = {} THEN map
    ELSE LET k == Min(ks)
             s == ix[k].h.segment_id
             c == IF s \in DOMAIN map THEN map[s] ELSE NoCounter
         IN ScanIndex_twice(With(map, s, [size |-> c.size + 2 * ix[k].size,
                                          item_count |-> c.item_count + 2]),
                            ix, ks \ {k})

RECURSIVE ScanIndex(_, _, _)
\* Scanner::scan over the index's (handle, size) pairs: per file id, the sizes
\* and the number of handles seen
ScanIndex(map, ix, ks) ==
    IF ks = {} THEN map
    ELSE LET k == Min(ks)
             s == ix[k].h.segment_id
             c == IF s \in DOMAIN map THEN map[s] ELSE NoCounter
         IN ScanIndex(With(map, s, [size |-> c.size + ix[k].size,
                                    item_count |-> c.item_count + 1]),
                      ix, ks \ {k})

\* scan_for_stats: the gate is taken, the segment ids are listed, Scanner::new
\* enters each with an empty counter
ScanBegin(t) ==
    /\ up /\ pc[t] = Idle /\ t = Scanner
    /\ rollover_guard = Free
    /\ rollover_guard' = t
    /\ t_map' = [t_map EXCEPT ![t] = [s \in DOMAIN segments |-> NoCounter]]
    /\ Goto(t, "scan", "scan")
    /\ UNCHANGED <<files, manifest_file, tmp_file, index, up, id, VLOG_ID_COUNTER, segments,
                   id_generator, blob_cache, writer, crashes>>
    /\ UNCHANGED <<t_writer, t_ids, t_queue, t_staged, t_swap, t_before>>
    /\ h_late' = {}
    /\ h_rec' = AmpAdvance(Advance(h_rec, "start", "scan"), "sa_dropped", "sa_scan")
    /\ UNCHANGED lock_vars
    /\ UNCHANGED h_get
    /\ UNCHANGED h_verify
    /\ UNCHANGED folder
    /\ UNCHANGED open_result

\* Scanner::scan, then Scanner::finish, which consumes the scanner and with it
\* the guard it holds
ScanFinish(t) ==
    /\ up /\ At(t, "scan", "scan")
    /\ t_map' = [t_map EXCEPT ![t] = ScanIndex(t_map[t], index, DOMAIN index)]
    /\ t_ids' = [t_ids EXCEPT ![t] = DOMAIN t_map'[t]]
    /\ rollover_guard' = Free
    /\ Goto(t, "scan", "consume")
    /\ UNCHANGED <<files, manifest_file, tmp_file, index, up, id, VLOG_ID_COUNTER, segments,
                   id_generator, blob_cache, writer, crashes>>
    /\ UNCHANGED <<t_writer, t_queue, t_staged, t_swap, t_before>>
    /\ UNCHANGED hist_vars
    /\ UNCHANGED lock_vars
    /\ UNCHANGED h_get
    /\ UNCHANGED h_verify
    /\ UNCHANGED folder
    /\ UNCHANGED open_result

\* a round that also marks every later segment of the manifest, counter or not
consume_scan_result_sweep(segs, s, counter) ==
    [x \in DOMAIN segs |->
        IF x > s THEN Segment_mark_as_stale(segs[x])
        ELSE IF x < s THEN segs[x]
        ELSE IF counter.item_count > 0
        THEN [segs[s] EXCEPT
                !.stale_bytes = segs[s].meta.total_uncompressed_bytes - counter.size,
                !.stale_items = segs[s].meta.item_count - counter.item_count]
        ELSE Segment_mark_as_stale(segs[s])]

\* a round that leaves a fully stale segment as it is
consume_scan_result_keep(segs, s, counter) ==
    IF Segment_is_stale(segs[s]) THEN segs
    ELSE IF counter.item_count > 0
    THEN With(segs, s, [segs[s] EXCEPT
                !.stale_bytes = segs[s].meta.total_uncompressed_bytes - counter.size,
                !.stale_items = segs[s].meta.item_count - counter.item_count])
    ELSE With(segs, s, Segment_mark_as_stale(segs[s]))

\* one round of consume_scan_result's loop, in the size map's key order
consume_scan_result(segs, s, counter) ==
    IF counter.item_count > 0
    THEN With(segs, s, [segs[s] EXCEPT
                !.stale_bytes = segs[s].meta.total_uncompressed_bytes - counter.size,
                !.stale_items = segs[s].meta.item_count - counter.item_count])
    ELSE With(segs, s, Segment_mark_as_stale(segs[s]))

\* the round panics: "segment should exist", or a subtraction below zero
ConsumePanics(segs, s, counter) ==
    \/ s \notin DOMAIN segs
    \/ /\ counter.item_count > 0
       /\ \/ counter.size > segs[s].meta.total_uncompressed_bytes
          \/ counter.item_count > segs[s].meta.item_count

Consume(t) ==
    /\ up /\ At(t, "scan", "consume")
    /\ ~SwapInProgress
    /\ IF t_ids[t] = {}
       THEN /\ pc' = [pc EXCEPT ![t] = Idle]
            /\ t_map' = [t_map EXCEPT ![t] = Empty]
            /\ UNCHANGED <<segments, t_ids>>
       ELSE LET s == Min(t_ids[t])
            IN IF ConsumePanics(segments, s, t_map[t][s])
               THEN /\ Goto(t, "scan", "panic")
                    /\ UNCHANGED <<segments, t_ids, t_map>>
               ELSE /\ segments' = consume_scan_result(segments, s, t_map[t][s])
                    /\ t_ids' = [t_ids EXCEPT ![t] = t_ids[t] \ {s}]
                    /\ UNCHANGED <<pc, t_map>>
    /\ UNCHANGED <<files, manifest_file, tmp_file, index, up, id, VLOG_ID_COUNTER,
                   id_generator, rollover_guard, blob_cache, writer, crashes>>
    /\ UNCHANGED <<t_writer, t_queue, t_staged, t_swap, t_before>>
    /\ h_rec' = IF t_ids[t] = {}
                THEN AmpAdvance(Advance(h_rec, "scan", "scanned"), "sa_scan", "sa_scanned")
                ELSE h_rec
    /\ UNCHANGED h_late
    /\ UNCHANGED lock_vars
    /\ UNCHANGED h_get
    /\ UNCHANGED h_verify
    /\ UNCHANGED folder
    /\ UNCHANGED open_result

\* ---------------------------------------------------- drop_stale_segments
StaleIds(segs) == {s \in DOMAIN segs : Segment_is_stale(segs[s])}

RECURSIVE SumOf(_, _)
SumOf(f, S) == IF S = {} THEN 0 ELSE f[Min(S)] + SumOf(f, S \ {Min(S)})

\* SegmentManifest::disk_space_used
disk_space_used(segs) == SumOf([s \in DOMAIN segs |-> segs[s].meta.compressed_bytes], DOMAIN segs)

\* u64::saturating_sub
saturating_sub(a, b) == IF a > b THEN a - b ELSE 0

\* drop_stale_segments' result: the compressed bytes of the collected segments
bytes_freed(segs) ==
    LET ids == StaleIds(segs)
    IN IF ids = {} THEN 0 ELSE disk_space_used([s \in ids |-> segs[s]])

\* a recipe that retains every segment
DropRecipe_none(map, ids) == map

\* SegmentManifest::drop_segments' recipe
DropRecipe(map, ids) == Without(map, ids)

\* drop_stale_segments: the gate is taken and the stale segments collected; with
\* none it returns, otherwise drop_segments enters atomic_swap
DropBegin(t) ==
    /\ up /\ pc[t] = Idle /\ t = Worker
    /\ rollover_guard = Free
    /\ IF StaleIds(segments) = {}
       THEN /\ h_rec' = AmpAdvance(Advance(h_rec, "scanned", "dropped"),
                                   "sa_rollover", "sa_dropped")
            /\ UNCHANGED <<rollover_guard, t_ids, t_swap, pc>>
       ELSE /\ rollover_guard' = t
            /\ t_ids' = [t_ids EXCEPT ![t] = StaleIds(segments)]
            /\ t_swap' = [t_swap EXCEPT ![t] = <<DropRecipe(segments, StaleIds(segments))>>]
            /\ Goto(t, "drop", "swap_create")
            /\ h_rec' = AmpAdvance(Advance(h_rec, "scanned", "drop"), "sa_rollover", "sa_drop")
    /\ UNCHANGED <<files, manifest_file, tmp_file, index, up, id, VLOG_ID_COUNTER, segments,
                   id_generator, blob_cache, writer, crashes, h_late>>
    /\ UNCHANGED <<t_writer, t_map, t_queue, t_staged, t_before>>
    /\ UNCHANGED lock_vars
    /\ UNCHANGED h_get
    /\ UNCHANGED h_verify
    /\ UNCHANGED folder
    /\ UNCHANGED open_result

\* after the swap the files are unlinked one by one, then the gate is released
DropUnlink(t) ==
    /\ up /\ At(t, "drop", "swapped")
    /\ IF t_ids[t] \cap DOMAIN files = {}
       THEN /\ rollover_guard' = Free
            /\ pc' = [pc EXCEPT ![t] = Idle]
            /\ t_ids' = [t_ids EXCEPT ![t] = {}]
            /\ h_rec' = AmpAdvance(Advance(h_rec, "drop", "dropped"), "sa_drop", "sa_dropped")
            /\ UNCHANGED files
       ELSE /\ files' = Without(files, {Min(t_ids[t] \cap DOMAIN files)})
            /\ UNCHANGED <<rollover_guard, pc, t_ids, h_rec>>
    /\ UNCHANGED <<manifest_file, tmp_file, index, up, id, VLOG_ID_COUNTER, segments,
                   id_generator, blob_cache, writer, crashes, h_late>>
    /\ UNCHANGED <<t_writer, t_map, t_queue, t_staged, t_swap, t_before>>
    /\ UNCHANGED lock_vars
    /\ UNCHANGED h_get
    /\ UNCHANGED h_verify
    /\ UNCHANGED folder
    /\ UNCHANGED open_result

\* ------------------------------------------------------------ merge reader
\* an order with the segment id ascending
ItemLess_oldest(a, b) ==
    \/ a.key < b.key
    \/ a.key = b.key /\ a.segment_id < b.segment_id

\* IteratorValue's order: key ascending, then segment id descending
ItemLess(a, b) ==
    \/ a.key < b.key
    \/ a.key = b.key /\ a.segment_id > b.segment_id

\* IntervalHeap::pop_min's choice
HeapMin(heap) == CHOOSE a \in heap : \A b \in heap \ {a} : ItemLess(a, b)

\* MergeReader::advance_reader: the reader's next record, if any, is pushed
advance_reader(st, readers, idx) ==
    IF st.pos[idx] <= Len(readers[idx].recs)
    THEN [pos |-> [st.pos EXCEPT ![idx] = st.pos[idx] + 1],
          heap |-> st.heap \cup {[index |-> idx,
                                  key |-> readers[idx].recs[st.pos[idx]].key,
                                  val |-> Decompress(readers[idx].recs[st.pos[idx]].val),
                                  segment_id |-> readers[idx].segment_id,
                                  checksum |-> readers[idx].recs[st.pos[idx]].checksum]}]
    ELSE st

RECURSIVE push_next(_, _, _)
push_next(st, readers, idx) ==
    IF idx > Len(readers) THEN st
    ELSE push_next(advance_reader(st, readers, idx), readers, idx + 1)

RECURSIVE DiscardOld(_, _, _)
\* the "discard old items" loop of MergeReader::next
DiscardOld(st, readers, head) ==
    IF st.heap = {} THEN st
    ELSE LET nxt == HeapMin(st.heap)
         IN IF nxt.key = head.key
            THEN DiscardOld(advance_reader([st EXCEPT !.heap = st.heap \ {nxt}],
                                           readers, nxt.index),
                            readers, head)
            ELSE st

RECURSIVE MergeRun(_, _)
\* everything MergeReader::next yields from state st on
MergeRun(st, readers) ==
    LET st1 == IF st.heap = {} THEN push_next(st, readers, 1) ELSE st
    IN IF st1.heap = {} THEN <<>>
       ELSE LET head == HeapMin(st1.heap)
                st2 == advance_reader([st1 EXCEPT !.heap = st1.heap \ {head}],
                                      readers, head.index)
                st3 == DiscardOld(st2, readers, head)
            IN <<[key |-> head.key, val |-> head.val, segment_id |-> head.segment_id,
                  checksum |-> head.checksum]>>
               \o MergeRun(st3, readers)

\* the scanners rollover opens: one per picked segment, over the records of its file
Readers(fs, ids) ==
    LET q == SetToSeq(ids)
    IN [i \in 1..Len(q) |-> [segment_id |-> q[i], recs |-> fs[q[i]].recs]]

MergeReader(fs, ids) ==
    LET rs == Readers(fs, ids)
    IN MergeRun([pos |-> [i \in 1..Len(rs) |-> 1], heap |-> {}], rs)

\* ---------------------------------------------------------------- rollover
\* a filter that discards the record when the handle's segment is older than
\* the record's
Discards_older(ix, item) ==
    \/ item.key \notin DOMAIN ix
    \/ ix[item.key].h.segment_id < item.segment_id

\* rollover's filter: the record is discarded when the index has no handle for
\* the key or the handle's segment is newer than the record's
Discards(ix, item) ==
    \/ item.key \notin DOMAIN ix
    \/ item.segment_id < ix[item.key].h.segment_id

\* what get returns for the handle of every key in the index
Resolved(ix) == [k \in DOMAIN ix |-> GetResult(ix[k].h)]

\* rollover(ids): the gate is taken, scanners and merge reader are opened, and
\* a new multi-writer is obtained
RolloverStart(t, ids, rec) ==
    /\ up /\ pc[t] = Idle /\ t = Worker
    /\ ids # {}
    /\ rollover_guard = Free
    /\ id_generator <= MaxId
    /\ rollover_guard' = t
    /\ t_ids' = [t_ids EXCEPT ![t] = ids]
    /\ t_queue' = [t_queue EXCEPT ![t] = MergeReader(files, ids)]
    /\ t_writer' = [t_writer EXCEPT ![t] = <<MultiWriter_new(id_generator)>>]
    /\ files' = With(files, id_generator, CreatedFile)
    /\ id_generator' = id_generator + 1
    /\ t_staged' = [t_staged EXCEPT ![t] = <<>>]
    /\ t_before' = [t_before EXCEPT ![t] = Resolved(index)]
    /\ Goto(t, "rollover", "rewrite")
    /\ UNCHANGED <<manifest_file, tmp_file, index, up, id, VLOG_ID_COUNTER, segments,
                   blob_cache, writer, crashes>>
    /\ UNCHANGED <<t_map, t_swap>>
    /\ h_rec' = rec
    /\ UNCHANGED h_late
    /\ UNCHANGED lock_vars
    /\ UNCHANGED h_get
    /\ UNCHANGED h_verify
    /\ UNCHANGED folder
    /\ UNCHANGED open_result

\* rollover called directly with a selection
RolloverBegin(t, ids) == RolloverStart(t, ids, <<>>)

\* a rewrite loop whose index writer binds each handle as soon as it is inserted
RolloverRewrite_eager(t) ==
    /\ up /\ At(t, "rollover", "rewrite")
    /\ IF t_queue[t] = <<>>
       THEN /\ files' = MultiWriter_finish(t_writer[t][1], files)
            /\ Goto(t, "rollover", "recipe")
            /\ UNCHANGED <<t_queue, t_writer, t_staged, id_generator, index>>
       ELSE LET item == Head(t_queue[t])
                mw == t_writer[t][1]
                h == get_next_value_handle(mw)
                r == MultiWriter_write(mw, item.key, item.val, files, id_generator)
            IN /\ t_queue' = [t_queue EXCEPT ![t] = Tail(t_queue[t])]
               /\ ~Discards(index, item) /\ Rotates(Last(mw.writers), item.key, item.val)
                    => id_generator <= MaxId
               /\ IF Discards(index, item)
                  THEN UNCHANGED <<files, t_writer, t_staged, id_generator, pc, index>>
                  ELSE /\ index' = With(index, item.key,
                                        [h |-> h, size |-> ValLen(item.val), val |-> item.val])
                       /\ t_writer' = [t_writer EXCEPT ![t] = <<r.mw>>]
                       /\ files' = r.files
                       /\ id_generator' = r.gen
                       /\ UNCHANGED <<pc, t_staged>>
    /\ UNCHANGED <<manifest_file, tmp_file, up, id, VLOG_ID_COUNTER, segments,
                   rollover_guard, blob_cache, writer, crashes>>
    /\ UNCHANGED <<t_ids, t_map, t_swap, t_before>>
    /\ UNCHANGED hist_vars
    /\ UNCHANGED lock_vars
    /\ UNCHANGED h_get
    /\ UNCHANGED h_verify
    /\ UNCHANGED folder
    /\ UNCHANGED open_result

\* one round of the rewrite loop; after the last one SegmentManifest::register
\* finishes the writer chain
RolloverRewrite(t) ==
    /\ up /\ At(t, "rollover", "rewrite")
    /\ IF t_queue[t] = <<>>
       THEN /\ files' = MultiWriter_finish(t_writer[t][1], files)
            /\ Goto(t, "rollover", "recipe")
            /\ UNCHANGED <<t_queue, t_writer, t_staged, id_generator>>
       ELSE LET item == Head(t_queue[t])
                mw == t_writer[t][1]
                h == get_next_value_handle(mw)
                r == MultiWriter_write(mw, item.key, item.val, files, id_generator)
            IN /\ t_queue' = [t_queue EXCEPT ![t] = Tail(t_queue[t])]
               /\ ~Discards(index, item) /\ Rotates(Last(mw.writers), item.key, item.val)
                    => id_generator <= MaxId
               /\ IF Discards(index, item)
                  THEN UNCHANGED <<files, t_writer, t_staged, id_generator, pc>>
                  ELSE /\ t_staged' = [t_staged EXCEPT ![t] =
                             Append(t_staged[t], [key |-> item.key, h |-> h,
                                                  size |-> ValLen(item.val), val |-> item.val])]
                       /\ t_writer' = [t_writer EXCEPT ![t] = <<r.mw>>]
                       /\ files' = r.files
                       /\ id_generator' = r.gen
                       /\ UNCHANGED pc
    /\ UNCHANGED <<manifest_file, tmp_file, index, up, id, VLOG_ID_COUNTER, segments,
                   rollover_guard, blob_cache, writer, crashes>>
    /\ UNCHANGED <<t_ids, t_map, t_swap, t_before>>
    /\ UNCHANGED hist_vars
    /\ UNCHANGED lock_vars
    /\ UNCHANGED h_get
    /\ UNCHANGED h_verify
    /\ UNCHANGED folder
    /\ UNCHANGED open_result

\* a round of the rewrite loop fails (the merge reader's item, index_reader.get,
\* insert_indirect or writer.write returns Err): `?` returns from rollover, the
\* guard, the writer and the index writer are dropped, register is never called
RolloverRewriteFails(t) ==
    /\ up /\ At(t, "rollover", "rewrite")
    /\ t_queue[t] # <<>>
    /\ rollover_guard' = Free
    /\ t_queue' = [t_queue EXCEPT ![t] = <<>>]
    /\ t_staged' = [t_staged EXCEPT ![t] = <<>>]
    /\ Goto(t, "rollover", "failed")
    /\ UNCHANGED <<files, manifest_file, tmp_file, index, up, id, VLOG_ID_COUNTER, segments,
                   id_generator, blob_cache, writer, crashes>>
    /\ UNCHANGED <<t_writer, t_ids, t_map, t_swap, t_before>>
    /\ UNCHANGED hist_vars
    /\ UNCHANGED lock_vars
    /\ UNCHANGED h_get
    /\ UNCHANGED h_verify
    /\ UNCHANGED folder
    /\ UNCHANGED open_result

\* index_writer.finish() commits the staged bindings
RolloverFinish(t) ==
    /\ up /\ At(t, "rollover", "swapped")
    /\ index' = ApplyStaged(index, t_staged[t])
    /\ t_staged' = [t_staged EXCEPT ![t] = <<>>]
    /\ Goto(t, "rollover", "mark")
    /\ UNCHANGED <<files, manifest_file, tmp_file, up, id, VLOG_ID_COUNTER, segments,
                   id_generator, rollover_guard, blob_cache, writer, crashes>>
    /\ UNCHANGED <<t_writer, t_ids, t_map, t_queue, t_swap, t_before>>
    /\ UNCHANGED hist_vars
    /\ UNCHANGED lock_vars
    /\ UNCHANGED h_get
    /\ UNCHANGED h_verify
    /\ UNCHANGED folder
    /\ UNCHANGED open_result

\* a rollover that marks the picked segments before it learns that finish failed
RolloverFinishFails_marked(t) ==
    /\ up /\ At(t, "rollover", "swapped")
    /\ rollover_guard' = Free
    /\ Goto(t, "rollover", "failed")
    /\ t_staged' = [t_staged EXCEPT ![t] = <<>>]
    /\ segments' = [s \in DOMAIN segments |->
                        IF s \in t_ids[t] THEN Segment_mark_as_stale(segments[s])
                        ELSE segments[s]]
    /\ UNCHANGED <<files, manifest_file, tmp_file, index, up, id, VLOG_ID_COUNTER,
                   id_generator, blob_cache, writer, crashes>>
    /\ UNCHANGED <<t_writer, t_ids, t_map, t_queue, t_swap, t_before>>
    /\ h_rec' = <<[kind |-> "failed", new |-> NewIds(t_writer[t]), old |-> t_ids[t],
                    before |-> segments, phase |-> "start"]>>
    /\ UNCHANGED h_late
    /\ UNCHANGED lock_vars
    /\ UNCHANGED h_get
    /\ UNCHANGED h_verify
    /\ UNCHANGED folder
    /\ UNCHANGED open_result

\* index_writer.finish() fails: nothing staged becomes visible, rollover
\* returns the error
RolloverFinishFails(t) ==
    /\ up /\ At(t, "rollover", "swapped")
    /\ rollover_guard' = Free
    /\ Goto(t, "rollover", "failed")
    /\ t_staged' = [t_staged EXCEPT ![t] = <<>>]
    /\ UNCHANGED <<files, manifest_file, tmp_file, index, up, id, VLOG_ID_COUNTER, segments,
                   id_generator, blob_cache, writer, crashes>>
    /\ UNCHANGED <<t_writer, t_ids, t_map, t_queue, t_swap, t_before>>
    /\ h_rec' = <<[kind |-> "failed", new |-> NewIds(t_writer[t]), old |-> t_ids[t],
                    before |-> segments, phase |-> "start"]>>
    /\ UNCHANGED h_late
    /\ UNCHANGED lock_vars
    /\ UNCHANGED h_get
    /\ UNCHANGED h_verify
    /\ UNCHANGED folder
    /\ UNCHANGED open_result

\* a rollover that takes its sources out of the segment map
mark_as_stale_drop(segs, ids) == Without(segs, ids)

\* a rollover that marks every segment of the manifest
mark_as_stale_all(segs, ids) == [s \in DOMAIN segs |-> Segment_mark_as_stale(segs[s])]

\* a rollover that leaves the stale counters of its sources alone
mark_as_stale_none(segs, ids) == segs

\* ValueLog::mark_as_stale
mark_as_stale(segs, ids) ==
    [s \in DOMAIN segs |-> IF s \in ids THEN Segment_mark_as_stale(segs[s]) ELSE segs[s]]

\* the picked segments are marked stale and rollover returns
RolloverMark(t) ==
    /\ up /\ At(t, "rollover", "mark")
    /\ ~SwapInProgress
    /\ segments' = mark_as_stale(segments, t_ids[t])
    /\ rollover_guard' = Free
    /\ Goto(t, "rollover", "done")
    /\ UNCHANGED <<files, manifest_file, tmp_file, index, up, id, VLOG_ID_COUNTER,
                   id_generator, blob_cache, writer, crashes>>
    /\ UNCHANGED <<t_writer, t_ids, t_map, t_queue, t_staged, t_swap, t_before>>
    /\ h_late' = h_late \ t_ids[t]
    /\ UNCHANGED h_rec
    /\ UNCHANGED lock_vars
    /\ UNCHANGED h_get
    /\ UNCHANGED h_verify
    /\ UNCHANGED folder
    /\ UNCHANGED open_result

\* the caller has seen rollover's result
RolloverReturn(t) ==
    /\ up /\ pc[t].op = "rollover" /\ pc[t].at \in {"done", "failed"}
    /\ pc' = [pc EXCEPT ![t] = Idle]
    /\ t_writer' = [t_writer EXCEPT ![t] = <<>>]
    /\ t_ids' = [t_ids EXCEPT ![t] = {}]
    /\ t_before' = [t_before EXCEPT ![t] = Empty]
    /\ UNCHANGED <<files, manifest_file, tmp_file, index, up, id, VLOG_ID_COUNTER, segments,
                   id_generator, rollover_guard, blob_cache, writer, crashes>>
    /\ UNCHANGED <<t_map, t_queue, t_staged, t_swap>>
    /\ UNCHANGED hist_vars
    /\ UNCHANGED lock_vars
    /\ UNCHANGED h_get
    /\ UNCHANGED h_verify
    /\ UNCHANGED folder
    /\ UNCHANGED open_result

\* ------------------------------------------------------ SpaceAmpStrategy
\* SegmentManifest::total_bytes and stale_bytes
total_bytes(segs) ==
    SumOf([s \in DOMAIN segs |-> segs[s].meta.total_uncompressed_bytes], DOMAIN segs)
stale_bytes(segs) ==
    SumOf([s \in DOMAIN segs |-> segs[s].stale_bytes], DOMAIN segs)

\* the targets tried, as <<numerator, denominator>>
Targets == {<<1, 1>>, <<3, 2>>, <<2, 1>>}

\* total / alive <= t
AmpAtMost(total, alive, t) == total * t[2] <= t[1] * alive

\* SegmentManifest::space_amp is 0.0 for an empty or entirely stale log, and
\* pick returns no segment when space_amp() < target
BelowTarget(segs, t) ==
    LET total == total_bytes(segs)
        alive == total - stale_bytes(segs)
    IN total = 0 \/ alive = 0 \/ total * t[2] < t[1] * alive

\* Segment::stale_ratio of a above that of b
RatioGreater(a, b) == a.stale_items * b.meta.item_count > b.stale_items * a.meta.item_count

\* the candidates in an order the sort can leave them in: stale ratio
\* descending, equal ratios in the order the hash map yielded them
PickOrders(segs) ==
    LET C == {s \in DOMAIN segs : segs[s].stale_items > 0}
        n == Cardinality(C)
    IN {o \in [1..n -> C] :
            /\ \A i, j \in 1..n : i # j => o[i] # o[j]
            /\ \A i, j \in 1..n : i < j => ~RatioGreater(segs[o[j]], segs[o[i]])}

RECURSIVE PickLoop(_, _, _, _, _, _)
\* the selection loop: the segment's stale bytes leave both sums, and the loop
\* stops once the ratio expected after GC is within the target
PickLoop(segs, order, i, total, stale, t) ==
    IF i > Len(order) THEN {}
    ELSE LET s == order[i]
             st == stale - segs[s].stale_bytes
             tt == total - segs[s].stale_bytes
         IN {s} \cup (IF tt - st > 0 /\ AmpAtMost(tt, tt - st, t) THEN {}
                      ELSE PickLoop(segs, order, i + 1, tt, st, t))

\* SpaceAmpStrategy::pick: the selections it can return
SpaceAmp_pick(segs, t) ==
    IF BelowTarget(segs, t) THEN {{}}
    ELSE {PickLoop(segs, o, 1, total_bytes(segs), stale_bytes(segs), t) : o \in PickOrders(segs)}

\* what is remembered of an apply_gc_strategy(SpaceAmp(target)) call: whether
\* the stale counters were those of a scan of the index when it began
AmpRecord(target) ==
    IF pc[Scanner] = Idle /\ \A s \in DOMAIN segments : CountersMatchIndex(s)
    THEN <<[kind |-> "space_amp", target |-> target, phase |-> "sa_rollover"]>>
    ELSE <<>>

\* apply_gc_strategy(SpaceAmp(target)): pick, then rollover of the selection
ApplySpaceAmp(t, target) ==
    \E ids \in SpaceAmp_pick(segments, target) : RolloverStart(t, ids, AmpRecord(target))

\* apply_gc_strategy(SpaceAmp(target)) with an empty selection: rollover
\* returns Ok(0) at once
ApplyNothing(t, target) ==
    /\ up /\ pc[t] = Idle /\ t = Worker
    /\ {} \in SpaceAmp_pick(segments, target)
    /\ h_rec' = AmpRecord(target)
    /\ h_rec' # h_rec
    /\ UNCHANGED <<files, manifest_file, tmp_file, index, up, id, VLOG_ID_COUNTER, segments,
                   id_generator, rollover_guard, blob_cache, writer, crashes, h_late>>
    /\ UNCHANGED thread_vars
    /\ UNCHANGED lock_vars
    /\ UNCHANGED h_get
    /\ UNCHANGED h_verify
    /\ UNCHANGED folder
    /\ UNCHANGED open_result

\* ------------------------------------------------- the locks, call by call
\* Each public operation as the sequence of lock calls it makes: lock/unlock on
\* rollover_guard, read/write on the segment map's RwLock and the drop of each
\* guard.
Locks_get_segment == <<"read", "read.drop">>

\* ValueLog::get: the segment is looked up, the file read without a lock
Locks_get == Locks_get_segment

\* register_writer: the gate, then SegmentManifest::register's atomic_swap
Locks_atomic_swap == <<"write", "write.drop">>
Locks_register_writer == <<"gate.lock">> \o Locks_atomic_swap \o <<"gate.unlock">>

\* scan_for_stats: list_segment_ids under the gate, Scanner::finish drops the
\* gate, then consume_scan_result: segment_count, and per id get_segment and a
\* second get_segment or mark_as_stale
Locks_scan_for_stats ==
    <<"gate.lock", "read", "read.drop", "gate.unlock">>
    \o <<"read", "read.drop">> \o Locks_get_segment \o <<"read", "read.drop">>

\* drop_stale_segments: the stale segments are collected under a read guard
\* that ends with the statement, then drop_segments swaps
Locks_drop_stale_segments ==
    <<"gate.lock", "read", "read.drop">> \o Locks_atomic_swap \o <<"gate.unlock">>

\* rollover of a non-empty selection: disk_space_used, get_segment, register,
\* mark_as_stale, disk_space_used
Locks_rollover ==
    <<"gate.lock", "read", "read.drop">> \o Locks_get_segment \o Locks_atomic_swap
    \o <<"read", "read.drop", "read", "read.drop", "gate.unlock">>

\* StaleThresholdStrategy::pick
Locks_StaleThreshold_pick == <<"read", "read.drop">>

\* SegmentManifest::space_amp: total_bytes, then stale_bytes
Locks_space_amp == <<"read", "read.drop", "read", "read.drop">>

\* SpaceAmpStrategy::pick above its target: space_amp, then the read guard
\* `lock`, under which total_bytes and stale_bytes each take the read lock
\* again; `lock` lives until the function returns
Locks_SpaceAmp_pick ==
    Locks_space_amp \o <<"read">> \o <<"read", "read.drop">> \o <<"read", "read.drop">>
    \o <<"read.drop">>

\* the operations and their lock calls; apply_gc_strategy is pick, then rollover,
\* which returns at once (no lock taken) for an empty selection
LockOps ==
    [get |-> Locks_get,
     register_writer |-> Locks_register_writer,
     scan_for_stats |-> Locks_scan_for_stats,
     drop_stale_segments |-> Locks_drop_stale_segments,
     rollover |-> Locks_rollover,
     apply_StaleThreshold |-> Locks_StaleThreshold_pick \o Locks_rollover,
     apply_StaleThreshold_none |-> Locks_StaleThreshold_pick,
     apply_SpaceAmp |-> Locks_SpaceAmp_pick \o Locks_rollover,
     apply_SpaceAmp_below |-> Locks_space_amp]

NoCall == [op |-> "idle", i |-> 0, parked |-> FALSE]
InCall(t) == call[t].op # "idle"
Returning(t) == InCall(t) /\ call[t].i > Len(LockOps[call[t].op])
\* the lock call thread t makes next
Instr(t) ==
    IF InCall(t) /\ ~Returning(t) THEN LockOps[call[t].op][call[t].i] ELSE "none"

NoReaders == \A t \in Threads : segments_lock.readers[t] = 0

\* the call returns in this state. std's RwLock leaves the priority policy to
\* the platform: a read() issued while a writer waits may be granted or may be
\* queued behind the writer; a queued reader (parked) gets the lock only once no
\* writer waits or holds
Granted(t) ==
    CASE Instr(t) = "gate.lock" -> rollover_guard = Free
      [] Instr(t) = "read" -> /\ segments_lock.writer = Free
                              /\ call[t].parked => segments_lock.waiting = {}
      [] Instr(t) = "write" -> /\ t \in segments_lock.waiting
                               /\ segments_lock.writer = Free /\ NoReaders
      [] Instr(t) \in {"gate.unlock", "read.drop", "write.drop"} -> TRUE
      [] OTHER -> FALSE

lock_rest == <<files, manifest_file, tmp_file, index, up, id, VLOG_ID_COUNTER, segments,
               id_generator, blob_cache, writer, pc, t_writer, t_ids, t_map, t_queue,
               t_staged, t_swap, t_before, crashes, h_late, h_rec, open_result, h_get,
               folder, h_verify>>

\* a thread calls one of the public operations
LockCall(t, op) ==
    /\ ~InCall(t)
    /\ call' = [call EXCEPT ![t] = [op |-> op, i |-> 1, parked |-> FALSE]]
    /\ UNCHANGED <<segments_lock, rollover_guard>>
    /\ UNCHANGED lock_rest

\* RwLock::write is entered: the thread now waits for the lock
LockRequestWrite(t) ==
    /\ Instr(t) = "write" /\ t \notin segments_lock.waiting
    /\ segments_lock' = [segments_lock EXCEPT !.waiting = @ \cup {t}]
    /\ UNCHANGED <<call, rollover_guard>>
    /\ UNCHANGED lock_rest

\* RwLock::read finds a writer waiting and queues behind it
LockPark(t) ==
    /\ Instr(t) = "read" /\ ~call[t].parked
    /\ segments_lock.waiting # {}
    /\ call' = [call EXCEPT ![t].parked = TRUE]
    /\ UNCHANGED <<segments_lock, rollover_guard>>
    /\ UNCHANGED lock_rest

\* the lock call returns
LockStep(t) ==
    /\ Granted(t)
    /\ call' = [call EXCEPT ![t] = [@ EXCEPT !.i = @ + 1, !.parked = FALSE]]
    /\ rollover_guard' =
          CASE Instr(t) = "gate.lock" -> t
            [] Instr(t) = "gate.unlock" -> Free
            [] OTHER -> rollover_guard
    /\ segments_lock' =
          CASE Instr(t) = "read" ->
                  [segments_lock EXCEPT !.readers[t] = @ + 1]
            [] Instr(t) = "read.drop" ->
                  [segments_lock EXCEPT !.readers[t] = @ - 1]
            [] Instr(t) = "write" ->
                  [segments_lock EXCEPT !.writer = t, !.waiting = @ \ {t}]
            [] Instr(t) = "write.drop" ->
                  [segments_lock EXCEPT !.writer = Free]
            [] OTHER -> segments_lock
    /\ UNCHANGED lock_rest

\* the operation returns to its caller
LockReturn(t) ==
    /\ Returning(t)
    /\ call' = [call EXCEPT ![t] = NoCall]
    /\ UNCHANGED <<segments_lock, rollover_guard>>
    /\ UNCHANGED lock_rest

\* ------------------------------------------------------------ next state
UserStep ==
    \/ GetWriter
    \/ \E k \in Keys, v \in Vals : Write(k, v)
    \/ \E h \in KnownHandles : Get(h)

RegisterStep == \E t \in Threads : RegisterBegin(t) \/ RegisterRecipe_step(t) \/ RegisterDone(t)

SwapSteps_ == \E t \in Threads : SwapStep(t) \/ SwapPublish(t)

ScanStep == \E t \in Threads : ScanBegin(t) \/ ScanFinish(t) \/ Consume(t)

DropStep == \E t \in Threads : DropBegin(t) \/ DropUnlink(t)

RolloverStep ==
    \E t \in Threads :
        \/ \E ids \in SUBSET (DOMAIN segments) : RolloverBegin(t, ids)
        \/ RolloverRewrite(t) \/ RolloverFinish(t) \/ RolloverFinishFails(t)
        \/ RolloverMark(t) \/ RolloverReturn(t)

WriterStep == GetWriter \/ \E k \in Keys, v \in Vals : Write(k, v)

\* writers, registration and reads
Next == UserStep \/ RegisterStep \/ SwapSteps_
Spec == Init /\ [][Next]_vars

\* the same with crashes and reopening
NextReopen == UserStep \/ RegisterStep \/ SwapSteps_ \/ Crash \/ Open
SpecReopen == Init /\ [][NextReopen]_vars

\* writers, registration and garbage collection
NextGC == WriterStep \/ RegisterStep \/ SwapSteps_ \/ ScanStep \/ DropStep \/ RolloverStep
SpecGC == Init /\ [][NextGC]_vars

\* --- a value log that already holds registered segments
\* the writers that one or two writes into file s can leave behind
BuiltWriters(s) ==
    LET one == {Writer_write(Writer_new(s), k, v) : k \in Keys, v \in Vals}
    IN one \cup {Writer_write(w, k, v) :
                    w \in {x \in one : x.offset < TargetSize}, k \in Keys, v \in Vals}

\* the newest record of key k: the last one in the highest segment holding it
NewestOf(fs, k) ==
    LET s == Max({x \in DOMAIN fs : \E i \in DOMAIN fs[x].recs : fs[x].recs[i].key = k})
        i == Max({n \in DOMAIN fs[s].recs : fs[s].recs[n].key = k})
    IN [h |-> [segment_id |-> s, offset |-> OffsetOf(fs[s].recs, i)],
        size |-> ValLen(Decompress(fs[s].recs[i].val)),
        val |-> Decompress(fs[s].recs[i].val)]

\* segments 0..n-1 written and registered one after the other, the index
\* binding each key the caller still has to its newest record
InitRegistered ==
    /\ \E n \in 2..MaxId :
          \E ws \in [0..(n - 1) -> UNION {BuiltWriters(s) : s \in 0..(n - 1)}] :
             /\ \A s \in 0..(n - 1) : ws[s].segment_id = s
             /\ files = [s \in 0..(n - 1) |-> Writer_flush(ws[s])]
             /\ segments = [s \in 0..(n - 1) |-> SegmentOf(ws[s])]
             /\ manifest_file = EncodeIds(0..(n - 1))
             /\ id_generator = n
    /\ \E ks \in SUBSET {k \in Keys : \E s \in DOMAIN files :
                              \E i \in DOMAIN files[s].recs : files[s].recs[i].key = k} :
          index = [k \in ks |-> NewestOf(files, k)]
    /\ tmp_file = <<>>
    /\ up = TRUE
    /\ id = 0
    /\ VLOG_ID_COUNTER = 1
    /\ rollover_guard = Free
    /\ blob_cache = {}
    /\ writer = <<>>
    /\ pc = [t \in Threads |-> Idle]
    /\ t_writer = [t \in Threads |-> <<>>]
    /\ t_ids = [t \in Threads |-> {}]
    /\ t_map = [t \in Threads |-> Empty]
    /\ t_queue = [t \in Threads |-> <<>>]
    /\ t_staged = [t \in Threads |-> <<>>]
    /\ t_swap = [t \in Threads |-> <<>>]
    /\ t_before = [t \in Threads |-> Empty]
    /\ crashes = 0
    /\ h_late = {}
    /\ h_rec = <<>>
    /\ segments_lock = [readers |-> [t \in Threads |-> 0], writer |-> Free, waiting |-> {}]
    /\ call = [t \in Threads |-> [op |-> "idle", i |-> 0, parked |-> FALSE]]
    /\ open_result = "Ok"
    /\ h_get = <<>>
    /\ h_verify = <<>>
    /\ folder = Created

\* scans, drops and SpaceAmp GC, one after the other, over such a log of two
\* segments
AmpStep ==
    \E t \in Threads :
        \/ \E target \in Targets : ApplySpaceAmp(t, target) \/ ApplyNothing(t, target)
        \/ RolloverRewrite(t) \/ RolloverFinish(t) \/ RolloverFinishFails(t)
        \/ RolloverMark(t) \/ RolloverReturn(t)
        \/ RegisterRecipe_step(t)
\* what is remembered of a major_compact call that follows a scan: the segments
\* of the manifest and the number of records in them when it began
MajorRecord ==
    IF pc[Scanner] = Idle /\ \A s \in DOMAIN segments : CountersMatchIndex(s)
    THEN <<[kind |-> "major", before |-> DOMAIN segments,
            items |-> SumOf([s \in DOMAIN segments |-> segments[s].meta.item_count],
                            DOMAIN segments),
            phase |-> "sa_rollover"]>>
    ELSE <<>>

\* major_compact: rollover of list_segment_ids()
major_compact(t) == RolloverStart(t, DOMAIN segments, MajorRecord)

\* one caller: an operation starts when the one before it has returned
CallerSteps == pc[Scanner] = Idle /\ (DropStep \/ AmpStep \/ SwapSteps_)
ScannerSteps == pc[Worker] = Idle /\ ScanStep
NextAmp == CallerSteps \/ ScannerSteps
InitTwo == InitRegistered /\ id_generator = 2
SpecAmp == InitTwo /\ [][NextAmp]_vars

\* scans, drops and major compactions, one after the other, over such a log
CompactSteps ==
    /\ pc[Scanner] = Idle
    /\ \/ DropStep \/ SwapSteps_
       \/ \E t \in Threads :
             \/ major_compact(t)
             \/ RolloverRewrite(t) \/ RolloverFinish(t) \/ RolloverFinishFails(t)
             \/ RolloverMark(t) \/ RolloverReturn(t)
             \/ RegisterRecipe_step(t)
NextCompact == CompactSteps \/ ScannerSteps
SpecCompact == InitRegistered /\ [][NextCompact]_vars

\* writers, registration and reads with prefetch
PrefetchStep == \E h \in KnownHandles, n \in 0..MaxPrefetch : GetWithPrefetch(h, n)
NextPrefetch == WriterStep \/ RegisterStep \/ SwapSteps_ \/ PrefetchStep
SpecPrefetch == Init /\ [][NextPrefetch]_vars

\* rollovers over such a log whose rewrite loop may fail
NextAbort ==
    \/ RolloverStep \/ (\E t \in Threads : RolloverRewriteFails(t))
    \/ (\E t \in Threads : RegisterRecipe_step(t)) \/ SwapSteps_
SpecAbort == InitRegistered /\ [][NextAbort]_vars

\* rollovers over such a log
NextMerge == RolloverStep \/ (\E t \in Threads : RegisterRecipe_step(t)) \/ SwapSteps_
SpecMerge == InitRegistered /\ [][NextMerge]_vars

\* writers and registration, the log closed, damaged and reopened
NextDamage == WriterStep \/ RegisterStep \/ SwapSteps_ \/ Crash \/ Damage \/ Open
SpecDamage == Init /\ [][NextDamage]_vars

\* concurrent public operations seen as lock calls
LockStepAll ==
    \E t \in Threads :
        \/ \E op \in DOMAIN LockOps : LockCall(t, op)
        \/ LockRequestWrite(t) \/ LockPark(t) \/ LockStep(t) \/ LockReturn(t)
SpecLock == Init /\ [][LockStepAll]_vars

\* a session that writes, registers, rolls over and drops, cut by a crash
\* anywhere; the next session recovers, scans and drops
FirstSession == crashes = 0 /\ (WriterStep \/ RegisterStep \/ RolloverStep)
LaterSession == crashes > 0 /\ ScanStep
NextCrash == FirstSession \/ LaterSession \/ SwapSteps_ \/ DropStep \/ Crash \/ Open
SpecCrash == Init /\ [][NextCrash]_vars

\* --------------------------------------------------- a failing atomic_swap
\* atomic_swap returns Err and its caller (register_writer, drop_stale_segments)
\* returns it with `?`: the working copy and the caller's locals are dropped,
\* the gate is released
SwapReturnsErr(t) ==
    /\ t_swap' = [t_swap EXCEPT ![t] = <<>>]
    /\ t_writer' = [t_writer EXCEPT ![t] = <<>>]
    /\ t_ids' = [t_ids EXCEPT ![t] = {}]
    /\ t_queue' = [t_queue EXCEPT ![t] = <<>>]
    /\ t_staged' = [t_staged EXCEPT ![t] = <<>>]
    /\ t_before' = [t_before EXCEPT ![t] = Empty]
    /\ rollover_guard' = Free
    /\ pc' = [pc EXCEPT ![t] = Idle]
    /\ UNCHANGED <<files, index, up, id, VLOG_ID_COUNTER, segments, id_generator,
                   blob_cache, writer, crashes, t_map>>
    /\ h_rec' = <<>>
    /\ UNCHANGED h_late
    /\ UNCHANGED lock_vars
    /\ UNCHANGED h_get
    /\ UNCHANGED h_verify
    /\ UNCHANGED folder
    /\ UNCHANGED open_result

\* rewrite_atomic fails in NamedTempFile::new_in, write_all or persist: the
\* temp file is removed when it is dropped, vlog_manifest is as it was
SwapFails(t) ==
    /\ up
    /\ pc[t].at \in {"swap_create", "swap_write", "swap_write_ids", "swap_rename"}
    /\ tmp_file' = <<>>
    /\ UNCHANGED manifest_file
    /\ SwapReturnsErr(t)

\* rewrite_atomic fails after persist, in File::open(path)? or sync_all()?:
\* vlog_manifest is the new list already
SwapSyncFails(t) ==
    /\ up
    /\ pc[t].at = "swap_publish"
    /\ UNCHANGED <<manifest_file, tmp_file>>
    /\ SwapReturnsErr(t)

SwapFailStep == \E t \in Threads : SwapFails(t) \/ SwapSyncFails(t)

\* writers, registration, scans and drops, with an atomic_swap that can fail
NextSwapFail ==
    WriterStep \/ RegisterStep \/ SwapSteps_ \/ ScanStep \/ DropStep \/ SwapFailStep
SpecSwapFail == Init /\ [][NextSwapFail]_vars

\* ------------------------------------------------------------ create_new
\* a directory in which no value log has been created yet
InitBlank ==
    /\ files = Empty
    /\ manifest_file = <<>>
    /\ tmp_file = <<>>
    /\ index = Empty
    /\ up = FALSE
    /\ id = 0
    /\ VLOG_ID_COUNTER = 0
    /\ segments = Empty
    /\ id_generator = 0
    /\ rollover_guard = Free
    /\ blob_cache = {}
    /\ writer = <<>>
    /\ pc = [t \in Threads |-> Idle]
    /\ t_writer = [t \in Threads |-> <<>>]
    /\ t_ids = [t \in Threads |-> {}]
    /\ t_map = [t \in Threads |-> Empty]
    /\ t_queue = [t \in Threads |-> <<>>]
    /\ t_staged = [t \in Threads |-> <<>>]
    /\ t_swap = [t \in Threads |-> <<>>]
    /\ t_before = [t \in Threads |-> Empty]
    /\ crashes = 0
    /\ h_late = {}
    /\ h_rec = <<>>
    /\ segments_lock = [readers |-> [t \in Threads |-> 0], writer |-> Free, waiting |-> {}]
    /\ call = [t \in Threads |-> [op |-> "idle", i |-> 0, parked |-> FALSE]]
    /\ open_result = NotOpened
    /\ h_get = <<>>
    /\ h_verify = <<>>
    /\ folder = Blank

\* the file-system calls of ValueLog::create_new in program order: the two
\* create_dir_all, File::create(marker), write_file_header, then
\* SegmentManifest::create_new's write_to_disk (rewrite_atomic's steps)
create_new_next(at) ==
    CASE at = "idle"           -> "segments_folder"
      [] at = "segments_folder" -> "marker_create"
      [] at = "marker_create"   -> "marker_write"
      [] at = "marker_write"    -> "swap_create"
      [] OTHER                  -> NextSwapStep(at)

\* ValueLog::open without a .vlog marker: the next step of create_new
CreateNewStep ==
    /\ ~up
    /\ \/ pc[Worker] = Idle /\ folder.marker = "absent"
       \/ pc[Worker].op = "create" /\ pc[Worker].at # "swap_publish"
    /\ LET at == pc[Worker].at
           r == rewrite_atomic(at, EncodeIds({}), manifest_file, tmp_file)
       IN /\ folder' = CASE at = "segments_folder" -> [folder EXCEPT !.segments_folder = TRUE]
                          [] at = "marker_create"   -> [folder EXCEPT !.marker = "empty"]
                          [] at = "marker_write"    -> [folder EXCEPT !.marker = "v1"]
                          [] at = "swap_rename"     -> [folder EXCEPT !.manifest = TRUE]
                          [] OTHER                  -> folder
          /\ IF at \in SwapSteps
             THEN manifest_file' = r.manifest /\ tmp_file' = r.tmp
             ELSE UNCHANGED <<manifest_file, tmp_file>>
          /\ Goto(Worker, "create", create_new_next(at))
    /\ UNCHANGED <<files, index, up, id, VLOG_ID_COUNTER, segments, id_generator,
                   rollover_guard, blob_cache, writer, crashes>>
    /\ UNCHANGED <<t_writer, t_ids, t_map, t_queue, t_staged, t_swap, t_before>>
    /\ UNCHANGED hist_vars
    /\ UNCHANGED lock_vars
    /\ UNCHANGED h_get
    /\ UNCHANGED h_verify
    /\ UNCHANGED open_result

\* create_new returns the new ValueLog
CreateNewDone ==
    /\ ~up /\ At(Worker, "create", "swap_publish")
    /\ up' = TRUE
    /\ segments' = Empty
    /\ id_generator' = 0
    /\ id' = VLOG_ID_COUNTER
    /\ VLOG_ID_COUNTER' = VLOG_ID_COUNTER + 1
    /\ pc' = [pc EXCEPT ![Worker] = Idle]
    /\ open_result' = "Ok"
    /\ UNCHANGED <<files, manifest_file, tmp_file, index, rollover_guard, blob_cache,
                   writer, crashes>>
    /\ UNCHANGED <<t_writer, t_ids, t_map, t_queue, t_staged, t_swap, t_before>>
    /\ UNCHANGED hist_vars
    /\ UNCHANGED lock_vars
    /\ UNCHANGED h_get
    /\ UNCHANGED h_verify
    /\ UNCHANGED folder

\* the process dies inside create_new
CreateCrash ==
    /\ ~up /\ pc[Worker].op = "create"
    /\ crashes < MaxCrashes
    /\ crashes' = crashes + 1
    /\ pc' = [pc EXCEPT ![Worker] = Idle]
    /\ open_result' = NotOpened
    /\ UNCHANGED <<files, manifest_file, tmp_file, index, up, id, VLOG_ID_COUNTER, segments,
                   id_generator, rollover_guard, blob_cache, writer>>
    /\ UNCHANGED <<t_writer, t_ids, t_map, t_queue, t_staged, t_swap, t_before>>
    /\ UNCHANGED hist_vars
    /\ UNCHANGED lock_vars
    /\ UNCHANGED h_get
    /\ UNCHANGED h_verify
    /\ UNCHANGED folder

\* ValueLog::recover on a marker without a version header: InvalidVersion(None)
OpenInvalidVersion ==
    /\ ~up /\ pc[Worker] = Idle
    /\ folder.marker = "empty"
    /\ open_result = NotOpened
    /\ open_result' = "InvalidVersion"
    /\ UNCHANGED <<files, manifest_file, tmp_file, index, up, id, VLOG_ID_COUNTER, segments,
                   id_generator, rollover_guard, blob_cache, writer, crashes>>
    /\ UNCHANGED thread_vars
    /\ UNCHANGED hist_vars
    /\ UNCHANGED lock_vars
    /\ UNCHANGED h_get
    /\ UNCHANGED h_verify
    /\ UNCHANGED folder

\* what ValueLog::open returns on this disk: the create_new path without a
\* marker, else recover's result
open_outcome(fd, mf, fs) ==
    IF fd.marker = "absent" THEN "create_new"
    ELSE IF fd.marker = "empty" THEN "InvalidVersion"
    ELSE recover_result(mf, fs)

\* creation, then writers and registration, cut by a crash anywhere; open
NextCreate ==
    \/ CreateNewStep \/ CreateNewDone \/ CreateCrash \/ OpenInvalidVersion \/ Open
    \/ Crash \/ WriterStep \/ RegisterStep \/ SwapSteps_
SpecCreate == InitBlank /\ [][NextCreate]_vars

\* ------------------------------------------------ reads next to the gate
\* writers, and registration, scan, drop and rollover one after the other,
\* with gets of the handles the caller holds at any moment
NextRead ==
    \/ WriterStep
    \/ pc[Scanner] = Idle /\ (RegisterStep \/ DropStep \/ RolloverStep \/ SwapSteps_)
    \/ pc[Worker] = Idle /\ ScanStep
    \/ \E h \in KnownHandles : Get(h)
SpecRead == Init /\ [][NextRead]_vars

\* ------------------------------------------------------- a failing scan
\* a scan whose error return keeps the gate
ScanFails_held(t) ==
    /\ up /\ At(t, "scan", "scan")
    /\ UNCHANGED rollover_guard
    /\ t_map' = [t_map EXCEPT ![t] = Empty]
    /\ Goto(t, "scan", "failed")
    /\ UNCHANGED <<files, manifest_file, tmp_file, index, up, id, VLOG_ID_COUNTER, segments,
                   id_generator, blob_cache, writer, crashes>>
    /\ UNCHANGED <<t_writer, t_ids, t_queue, t_staged, t_swap, t_before>>
    /\ h_rec' = <<>>
    /\ UNCHANGED h_late
    /\ UNCHANGED lock_vars
    /\ UNCHANGED h_get
    /\ UNCHANGED h_verify
    /\ UNCHANGED folder
    /\ UNCHANGED open_result

\* Scanner::scan: the iterator yields Err at some item; `?` returns
\* Error::Io from scan_for_stats, the scanner is dropped with the counters it
\* had collected and with the gate's guard
ScanFails(t) ==
    /\ up /\ At(t, "scan", "scan")
    /\ rollover_guard' = Free
    /\ t_map' = [t_map EXCEPT ![t] = Empty]
    /\ Goto(t, "scan", "failed")
    /\ UNCHANGED <<files, manifest_file, tmp_file, index, up, id, VLOG_ID_COUNTER, segments,
                   id_generator, blob_cache, writer, crashes>>
    /\ UNCHANGED <<t_writer, t_ids, t_queue, t_staged, t_swap, t_before>>
    /\ h_rec' = <<>>
    /\ UNCHANGED h_late
    /\ UNCHANGED lock_vars
    /\ UNCHANGED h_get
    /\ UNCHANGED h_verify
    /\ UNCHANGED folder
    /\ UNCHANGED open_result

\* the caller has seen scan_for_stats' error
ScanReturnsErr(t) ==
    /\ up /\ At(t, "scan", "failed")
    /\ pc' = [pc EXCEPT ![t] = Idle]
    /\ UNCHANGED <<files, manifest_file, tmp_file, index, up, id, VLOG_ID_COUNTER, segments,
                   id_generator, rollover_guard, blob_cache, writer, crashes>>
    /\ UNCHANGED <<t_writer, t_ids, t_map, t_queue, t_staged, t_swap, t_before>>
    /\ UNCHANGED hist_vars
    /\ UNCHANGED lock_vars
    /\ UNCHANGED h_get
    /\ UNCHANGED h_verify
    /\ UNCHANGED folder
    /\ UNCHANGED open_result

ScanFailStep == \E t \in Threads : ScanFails(t) \/ ScanReturnsErr(t)

\* writers, registration, scans and drops, with an index iterator that can fail
NextScanFail ==
    WriterStep \/ RegisterStep \/ SwapSteps_ \/ ScanStep \/ DropStep \/ ScanFailStep
SpecScanFail == Init /\ [][NextScanFail]_vars

\* --------------------------------------------- rollover with nothing to do
\* a rollover that obtains its writer before it looks the ids up
RolloverNoop_writer(t, ids) ==
    /\ up /\ pc[t] = Idle /\ t = Worker
    /\ ids = {} \/ (rollover_guard = Free /\ ~(ids \subseteq DOMAIN segments))
    /\ id_generator <= MaxId
    /\ files' = With(files, id_generator, CreatedFile)
    /\ id_generator' = id_generator + 1
    /\ t_ids' = [t_ids EXCEPT ![t] = ids]
    /\ Goto(t, "rollover", "noop")
    /\ UNCHANGED <<manifest_file, tmp_file, index, up, id, VLOG_ID_COUNTER, segments,
                   rollover_guard, blob_cache, writer, crashes>>
    /\ UNCHANGED <<t_writer, t_map, t_queue, t_staged, t_swap, t_before>>
    /\ h_rec' = <<>>
    /\ UNCHANGED h_late
    /\ UNCHANGED lock_vars
    /\ UNCHANGED h_get
    /\ UNCHANGED h_verify
    /\ UNCHANGED folder
    /\ UNCHANGED open_result

\* rollover(ids) returning Ok(0) early: for no ids before the gate is taken,
\* for an id that get_segment does not find with the gate taken and released
\* again at the return
RolloverNoop(t, ids) ==
    /\ up /\ pc[t] = Idle /\ t = Worker
    /\ ids = {} \/ (rollover_guard = Free /\ ~(ids \subseteq DOMAIN segments))
    /\ UNCHANGED <<files, id_generator>>
    /\ t_ids' = [t_ids EXCEPT ![t] = ids]
    /\ Goto(t, "rollover", "noop")
    /\ UNCHANGED <<manifest_file, tmp_file, index, up, id, VLOG_ID_COUNTER, segments,
                   rollover_guard, blob_cache, writer, crashes>>
    /\ UNCHANGED <<t_writer, t_map, t_queue, t_staged, t_swap, t_before>>
    /\ h_rec' = <<>>
    /\ UNCHANGED h_late
    /\ UNCHANGED lock_vars
    /\ UNCHANGED h_get
    /\ UNCHANGED h_verify
    /\ UNCHANGED folder
    /\ UNCHANGED open_result

\* the caller has seen the Ok(0)
RolloverNoopReturn(t) ==
    /\ up /\ At(t, "rollover", "noop")
    /\ pc' = [pc EXCEPT ![t] = Idle]
    /\ t_ids' = [t_ids EXCEPT ![t] = {}]
    /\ UNCHANGED <<files, manifest_file, tmp_file, index, up, id, VLOG_ID_COUNTER, segments,
                   id_generator, rollover_guard, blob_cache, writer, crashes>>
    /\ UNCHANGED <<t_writer, t_map, t_queue, t_staged, t_swap, t_before>>
    /\ UNCHANGED hist_vars
    /\ UNCHANGED lock_vars
    /\ UNCHANGED h_get
    /\ UNCHANGED h_verify
    /\ UNCHANGED folder
    /\ UNCHANGED open_result

NoopStep ==
    \E t \in Threads :
        \/ \E ids \in SUBSET (0..MaxId) : RolloverNoop(t, ids)
        \/ RolloverNoopReturn(t)

\* writers, registration, drops and rollovers of any set of ids
NextNoop == WriterStep \/ RegisterStep \/ SwapSteps_ \/ RolloverStep \/ DropStep \/ NoopStep
SpecNoop == Init /\ [][NextNoop]_vars

\* --- verify
\* at most this many records are corrupted at a time
MaxRot == 2

\* the checksum recomputed from a record's key and value differs from the stored one
Mismatch(r) == Xxh3(r.key, r.val) # r.checksum

\* the records of the registered segments' files that are corrupted
CorruptRecords(fs, segs) ==
    {p \in (DOMAIN segs \cap DOMAIN fs) \X (1..MaxWrites) :
        p[2] \in DOMAIN fs[p[1]].recs /\ Mismatch(fs[p[1]].recs[p[2]])}

\* ValueLog::verify: the merge reader over every segment of the map, counting
\* the items whose checksum does not match
verify(fs, segs) ==
    LET items == MergeReader(fs, DOMAIN segs)
    IN Cardinality({i \in DOMAIN items : Mismatch(items[i])})

\* a byte of a registered file goes bad: in the stored checksum of a record
\* or in its key
BitRot ==
    /\ up /\ \A t \in Threads : pc[t] = Idle
    /\ Cardinality(CorruptRecords(files, segments)) < MaxRot
    /\ \E s \in DOMAIN segments \cap DOMAIN files : \E i \in DOMAIN files[s].recs :
          LET r == files[s].recs[i]
          IN \E r2 \in {[r EXCEPT !.checksum = (r.checksum + 32) % 64],
                         [r EXCEPT !.key = IF r.key = MaxKey THEN 1 ELSE r.key + 1]} :
                files' = With(files, s, [files[s] EXCEPT !.recs[i] = r2])
    /\ UNCHANGED <<manifest_file, tmp_file, index, up, id, VLOG_ID_COUNTER, segments,
                   id_generator, rollover_guard, blob_cache, writer, crashes>>
    /\ UNCHANGED thread_vars
    /\ UNCHANGED hist_vars
    /\ UNCHANGED lock_vars
    /\ UNCHANGED <<open_result, h_get, folder, h_verify>>

\* verify() called and returned
Verify ==
    /\ up /\ \A t \in Threads : pc[t] = Idle
    /\ rollover_guard = Free
    /\ DOMAIN segments \subseteq DOMAIN files
    /\ h_verify' = <<verify(files, segments)>>
    /\ UNCHANGED <<files, manifest_file, tmp_file, index, up, id, VLOG_ID_COUNTER, segments,
                   id_generator, rollover_guard, blob_cache, writer, crashes>>
    /\ UNCHANGED thread_vars
    /\ UNCHANGED hist_vars
    /\ UNCHANGED lock_vars
    /\ UNCHANGED <<open_result, h_get, folder>>

\* registered segments, damage to their records, verify
InitVerify ==
    /\ InitRegistered
    /\ \A s \in DOMAIN files : \A i \in DOMAIN files[s].recs : files[s].recs[i].key \in DOMAIN index

NextVerify == BitRot \/ Verify
SpecVerify == InitVerify /\ [][NextVerify]_vars

\* ------------------------------------------------------------------ claims
Some(v) == [tag |-> "some", val |-> v]

C2_Durable ==
    [][/\ (up /\ ~up' /\ \A t \in Threads : pc[t] = Idle)
            => DOMAIN segments = ListedIds(manifest_file)
       /\ (~up /\ up')
            => /\ DOMAIN segments' = ListedIds(manifest_file)
               /\ \A k \in DOMAIN index :
                    index[k].h.segment_id \in ListedIds(manifest_file)
                        => GetResult(index[k].h)' = Some(index[k].val)]_vars

\* a reopened value log with two registered segments, both referenced by the
\* index, whose handles resolve to the values written before the crash
C2_Witness ==
    /\ up /\ crashes = 1
    /\ Cardinality(DOMAIN segments) = 2
    /\ DOMAIN index = Keys
    /\ {index[k].h.segment_id : k \in Keys} = DOMAIN segments
    /\ \A k \in Keys : GetResult(index[k].h) = Some(index[k].val)

\* the keys of the records a blob file holds
KeysIn(f) == {f.recs[i].key : i \in 1..Len(f.recs)}

\* handle freshness over the segments olds: every index handle points into the
\* highest-id segment of olds that holds its key
Fresh(olds) ==
    \A k \in DOMAIN index :
        LET S == {s \in olds : s \in DOMAIN files /\ k \in KeysIn(files[s])}
        IN S # {} /\ index[k].h.segment_id = Max(S)

\* C3: given handle freshness, when rollover(ids) succeeds every key whose handle
\* pointed into a picked segment is bound to a handle in a newly registered
\* segment that resolves to the same value as before, and every other key keeps
\* its handle and value.
C3_RolloverPreserves ==
    [][\A t \in Threads :
         (/\ At(t, "rollover", "swapped") /\ pc'[t].at = "mark"
          /\ Fresh((DOMAIN segments) \ NewIds(t_writer[t])))
         => \A k \in DOMAIN index :
               /\ k \in DOMAIN index'
               /\ GetResult(index[k].h)' = t_before[t][k]
               /\ IF index[k].h.segment_id \in t_ids[t]
                  THEN index'[k].h.segment_id \in NewIds(t_writer[t])
                  ELSE index'[k].h = index[k].h]_vars

\* the operations that run behind the GC gate, from taking it to returning
Scanning == pc[Scanner].op = "scan" /\ pc[Scanner].at \in {"scan", "consume"}
Working ==
    \/ pc[Worker].op \in {"register", "drop"}
    \/ pc[Worker].op = "rollover" /\ pc[Worker].at \notin {"done", "failed"}

\* C4: the GC gate is held for the full duration of each liveness scan (from the
\* snapshot of the segment ids until the stale counters are written), rollover,
\* register_writer and drop_stale_segments, so no two of them overlap.
C4_GateHeld ==
    /\ Scanning => rollover_guard = Scanner
    /\ Working => rollover_guard = Worker
    /\ ~(Scanning /\ Working)

ScanPanicked == At(Scanner, "scan", "panic")

\* C5: a segment registered after a liveness scan took its snapshot is left
\* untouched when that scan's result is consumed (its stale counters stay zero),
\* and a following drop_stale_segments leaves it in the manifest, in memory and
\* on disk, and leaves its file in place.
C5_LateUntouched ==
    \A s \in h_late :
        /\ s \in DOMAIN segments
        /\ segments[s].stale_items = 0 /\ segments[s].stale_bytes = 0
        /\ s \in ListedIds(manifest_file)
        /\ TrailerOk(files, s)

\* segment 0 lost its last reference to segment 1; a scan snapshotted {0, 1};
\* segment 2 was registered before the scan's result was consumed; the scan
\* marked 0 stale and drop_stale_segments has removed it, with 2 in place
C5_Witness ==
    /\ h_late = {2} /\ id_generator = 3
    /\ pc[Scanner] = Idle
    /\ At(Worker, "drop", "swapped")
    /\ t_ids[Worker] = {0} /\ 0 \notin DOMAIN files
    /\ DOMAIN segments = {1, 2}
    /\ {index[k].h.segment_id : k \in DOMAIN index} = {1, 2}

AllResolve == \A k \in DOMAIN index : GetResult(index[k].h) = Some(index[k].val)

Followed(kind) == h_rec # <<>> /\ h_rec[1].kind = kind

\* what holds after a rollover whose finish failed, once the scan and the drop
\* that follow it are through
AfterFailure ==
    Followed("failed") =>
        LET r == h_rec[1]
        IN /\ r.phase \in {"scanned", "drop"} =>
                /\ \A s \in r.new \cap DOMAIN segments : Segment_is_stale(segments[s])
                /\ \A s \in r.old : RefKeys(s) # {} =>
                      /\ s \in DOMAIN segments
                      /\ ~Segment_is_stale(segments[s])
           /\ r.phase = "scanned" =>
                \A s \in r.old : RefKeys(s) # {} => CountersMatchIndex(s)
           /\ r.phase = "dropped" =>
                /\ r.new \cap DOMAIN segments = {}
                /\ r.new \cap ListedIds(manifest_file) = {}
                /\ r.new \cap DOMAIN files = {}
                /\ \A s \in r.old : RefKeys(s) # {} =>
                      s \in DOMAIN segments /\ ~Segment_is_stale(segments[s])
                /\ AllResolve

\* C6 (amended): when index_writer.finish() fails, rollover returns the error
\* with the manifest listing the picked and the new segments, no stale counter
\* changed and the index unchanged and pointing at no new segment; after the
\* next scan over that index every new segment is fully stale and the following
\* drop removes it, while every picked segment the index still references stays
\* registered with the stale counters the index implies.
C6_FinishFails ==
    [][/\ \A t \in Threads :
            At(t, "rollover", "swapped") /\ pc'[t].at = "failed" =>
               /\ segments' = segments /\ index' = index
               /\ rollover_guard' = Free
               /\ t_ids[t] \cup NewIds(t_writer[t]) \subseteq DOMAIN segments
               /\ t_ids[t] \cup NewIds(t_writer[t]) \subseteq ListedIds(manifest_file)
               /\ \A k \in DOMAIN index : index[k].h.segment_id \notin NewIds(t_writer[t])
       /\ AfterFailure']_vars

\* a failed rollover that wrote a new segment, picked a referenced one, and was
\* followed by a scan and a drop
C6_Witness ==
    /\ Followed("failed") /\ h_rec[1].phase = "dropped"
    /\ h_rec[1].new # {}
    /\ \E s \in h_rec[1].old : RefKeys(s) # {}

\* C6 as stated: after the scan that follows the failed rollover exactly the new
\* segments are fully stale, and every picked segment has the stale counters it
\* had before and is registered, also after the drop.
C6_AsStated ==
    Followed("failed") =>
        LET r == h_rec[1]
        IN /\ r.phase = "scanned" =>
                /\ StaleIds(segments) = r.new
                /\ \A s \in r.old :
                      /\ s \in DOMAIN segments
                      /\ segments[s].stale_items = r.before[s].stale_items
                      /\ segments[s].stale_bytes = r.before[s].stale_bytes
           /\ r.phase = "dropped" => r.old \subseteq DOMAIN segments

\* what holds after a crash cut a rollover before finish: from the reopening on,
\* and once the scan and the drop that follow it are through
AfterCrash ==
    Followed("crashed") =>
        LET r == h_rec[1]
        IN /\ r.phase # "down" =>
                /\ up => AllResolve
                /\ \A s \in r.old : RefKeys(s) # {} =>
                      s \in ListedIds(manifest_file) /\ TrailerOk(files, s)
           /\ r.phase \in {"scanned", "drop"} =>
                \A s \in r.new \cap DOMAIN segments : Segment_is_stale(segments[s])
           /\ r.phase = "dropped" =>
                /\ r.new \cap DOMAIN segments = {}
                /\ r.new \cap ListedIds(manifest_file) = {}
                /\ r.new \cap DOMAIN files = {}
                /\ \A s \in r.old : RefKeys(s) # {} => s \in DOMAIN segments

\* C7 (amended): if the process dies during a rollover before finish has
\* committed, then after reopening, scanning the unchanged index and dropping,
\* every file the rollover wrote is gone, every picked segment the index still
\* references is registered, and every index handle resolves to its value.
C7_CrashInRollover == AfterCrash

\* the crash came after the rollover had registered a new segment; the log was
\* reopened, scanned and dropped, and a picked segment is still referenced
C7_Witness ==
    /\ Followed("crashed") /\ h_rec[1].phase = "dropped"
    /\ h_rec[1].new \cap DOMAIN h_rec[1].before # {}
    /\ \E s \in h_rec[1].old : RefKeys(s) # {}

\* C7 as stated: after the reopening, the scan and the drop every picked
\* segment is still registered.
C7_AsStated ==
    Followed("crashed") /\ h_rec[1].phase = "dropped" =>
        /\ h_rec[1].new \cap DOMAIN files = {}
        /\ h_rec[1].old \subseteq DOMAIN segments
        /\ AllResolve

\* C8: at every instant, so at every point a crash can cut register_writer,
\* rollover or drop_stale_segments, every id the on-disk manifest lists has a
\* completely written blob file in segments/, and a recovery started there
\* succeeds.
C8_NoDangling ==
    /\ \A s \in ListedIds(manifest_file) : TrailerOk(files, s)
    /\ RecoverOk(manifest_file, files)

\* the process is down after a crash inside a manifest rewrite, with listed
\* segments and with files the manifest does not list
C8_Witness ==
    /\ ~up /\ tmp_file # <<>>
    /\ ListedIds(manifest_file) # {}
    /\ (DOMAIN files) \ ListedIds(manifest_file) # {}

\* C9: whatever step of rewrite_atomic a crash cuts, vlog_manifest holds a
\* complete id list, the one before the rewrite or the one being written, and
\* that is what recovery loads.
C9_AtomicRewrite ==
    /\ Len(manifest_file) >= 1 /\ Len(manifest_file) = 1 + manifest_file[1]
    /\ load_ids_from_disk(manifest_file).ok
    /\ up => \/ ListedIds(manifest_file) = DOMAIN segments
             \/ \E t \in Threads :
                    t_swap[t] # <<>> /\ ListedIds(manifest_file) = DOMAIN t_swap[t][1]

\* the log was reopened after a crash that left a partly written temp file:
\* recovery loaded the previous list
C9_Witness ==
    /\ up /\ crashes = 1
    /\ tmp_file # <<>> /\ Len(tmp_file[1]) = 1 /\ tmp_file[1][1] > 0
    /\ DOMAIN segments = ListedIds(manifest_file)
    /\ DOMAIN segments # {}

\* C10: a scan that saw no handle into a snapshotted segment F marks F fully
\* stale (stale_items = item_count, stale_bytes = total_uncompressed_bytes); the
\* drop_stale_segments that follows picks every fully stale segment, removes it
\* from the on-disk and the in-memory manifest, and has unlinked its file when
\* it returns.
C10_UnreferencedDropped ==
    [][/\ \A s \in DOMAIN segments :
            (/\ At(Scanner, "scan", "consume") /\ t_ids[Scanner] # {}
             /\ s = Min(t_ids[Scanner]) /\ t_map[Scanner][s].item_count = 0
             /\ t_ids'[Scanner] = t_ids[Scanner] \ {s})
            => /\ segments'[s].stale_items = segments[s].meta.item_count
               /\ segments'[s].stale_bytes = segments[s].meta.total_uncompressed_bytes
               /\ Segment_is_stale(segments'[s])
       /\ (pc[Worker] = Idle /\ pc'[Worker].op = "drop")
            => t_ids'[Worker] = StaleIds(segments) /\ rollover_guard' = Worker
       /\ (At(Worker, "drop", "swap_publish") /\ At(Worker, "drop", "swapped")')
            => /\ t_ids[Worker] \cap DOMAIN segments' = {}
               /\ t_ids[Worker] \cap ListedIds(manifest_file) = {}
       /\ (At(Worker, "drop", "swapped") /\ pc'[Worker] = Idle)
            => /\ t_ids[Worker] \cap DOMAIN files' = {}
               /\ t_ids[Worker] \cap DOMAIN segments' = {}
               /\ t_ids[Worker] \cap ListedIds(manifest_file') = {}]_vars

\* segment 0 lost its only reference to segment 1 (no rollover ran: two ids were
\* handed out); a scan marked it stale and drop_stale_segments has removed it
\* from the manifest and unlinked its file
C10_Witness ==
    /\ id_generator = 2
    /\ At(Worker, "drop", "swapped")
    /\ t_ids[Worker] = {0} /\ 0 \notin DOMAIN files
    /\ DOMAIN segments = {1} /\ ListedIds(manifest_file) = {1}

\* the segments the scan in progress listed when it took the gate
Snapshotted == DOMAIN t_map[Scanner] \ h_late

\* C11: the round of consume_scan_result for a snapshotted segment S with a
\* counter of c >= 1 handles and b bytes never underflows and sets stale_items =
\* item_count - c and stale_bytes = total_uncompressed_bytes - b whatever the
\* counters held before, so S is not fully stale; drop_stale_segments picks
\* fully stale segments only.
C11_Accounting ==
    [][/\ \A s \in Snapshotted :
            (/\ At(Scanner, "scan", "consume") /\ t_ids[Scanner] # {}
             /\ s = Min(t_ids[Scanner]) /\ t_map[Scanner][s].item_count >= 1
             /\ s \in DOMAIN segments)
            => /\ pc'[Scanner].at # "panic"
               /\ t_ids'[Scanner] = t_ids[Scanner] \ {s}
                  => /\ segments'[s].stale_items =
                          segments[s].meta.item_count - t_map[Scanner][s].item_count
                     /\ segments'[s].stale_bytes =
                          segments[s].meta.total_uncompressed_bytes - t_map[Scanner][s].size
                     /\ segments'[s].stale_items < segments[s].meta.item_count
                     /\ s \notin StaleIds(segments')
       /\ (pc[Worker] = Idle /\ pc'[Worker].op = "drop")
            => \A s \in t_ids'[Worker] :
                  segments[s].stale_items = segments[s].meta.item_count]_vars

\* a rollover that ran after Scanner::finish rebound every key of segment s and
\* marked s fully stale; the scan's round for s then wrote item_count - c
C11_Witness ==
    /\ At(Scanner, "scan", "consume") /\ pc[Worker] = Idle
    /\ \E s \in (Snapshotted \ t_ids[Scanner]) \cap DOMAIN segments :
          /\ t_map[Scanner][s].item_count >= 1
          /\ \A i \in DOMAIN index : index[i].h.segment_id # s
          /\ segments[s].stale_items =
                segments[s].meta.item_count - t_map[Scanner][s].item_count
          /\ ~Segment_is_stale(segments[s])

\* every thread is inside an operation and waits for a lock that no thread that
\* can still run will release
Deadlocked == \A t \in Threads : InCall(t) /\ ~Returning(t) /\ ~Granted(t)
                                  /\ ~ENABLED LockRequestWrite(t) /\ ~ENABLED LockPark(t)

\* C12: under any interleaving of get, register_writer, scan_for_stats,
\* apply_gc_strategy (StaleThreshold or SpaceAmp), rollover and
\* drop_stale_segments no reachable state is a deadlock on the gate and the
\* segment map's read-write lock.
C12_NoDeadlock == ~Deadlocked

\* C13: when open() recovers a value log, every file of segments/ whose id is
\* not in the manifest is unlinked, every file whose id is in the manifest stays
\* as it was, and segment_count is the number of ids in the manifest.
C13_OrphansRemoved ==
    [][(~up /\ up')
        => LET ids == ListedIds(manifest_file)
           IN /\ DOMAIN files' = DOMAIN files \cap ids
              /\ ids \subseteq DOMAIN files'
              /\ \A s \in ids : files'[s] = files[s]
              /\ DOMAIN segments' = ids
              /\ Cardinality(DOMAIN segments') = manifest_file[1]]_vars

\* a rollover was cut by a crash before its new file was registered; the value
\* log has been recovered, the new file is gone and the registered ones remain
C13_Witness ==
    /\ up /\ h_rec # <<>> /\ h_rec[1].kind = "crashed" /\ h_rec[1].phase = "start"
    /\ \E s \in h_rec[1].new : s \notin DOMAIN files /\ s \notin ListedIds(manifest_file)
    /\ DOMAIN segments # {} /\ DOMAIN files = DOMAIN segments

\* C14: if the manifest lists a segment id whose blob file is missing or has no
\* valid trailer, open() fails with the error kind Unrecoverable and no value
\* log is returned.
C14_Unrecoverable ==
    [][(/\ ~up /\ open_result = NotOpened /\ open_result' # NotOpened
        /\ \E s \in ListedIds(manifest_file) : ~TrailerOk(files, s))
        => open_result' = "Unrecoverable" /\ ~up']_vars

\* the records of a file are in key order
SortedByKey(f) ==
    \A i, j \in DOMAIN f.recs : i < j => f.recs[i].key <= f.recs[j].key

\* the segments among ids whose file holds a record of key k
Holders(ids, k) == {s \in ids : \E i \in DOMAIN files[s].recs : files[s].recs[i].key = k}

\* C15: over segments that are each sorted by key, MergeReader yields exactly
\* one entry per distinct key, and the entry's value and segment_id come from
\* the segment with the highest id among those that contain the key.
C15_MergeDedup ==
    [][(/\ pc[Worker] = Idle /\ pc'[Worker].op = "rollover"
        /\ \A s \in t_ids'[Worker] : SortedByKey(files[s]))
        => LET q == t_queue'[Worker]
               ids == t_ids'[Worker]
           IN /\ \A i, j \in DOMAIN q : i # j => q[i].key # q[j].key
              /\ {q[i].key : i \in DOMAIN q} = {k \in Keys : Holders(ids, k) # {}}
              /\ \A i \in DOMAIN q :
                    /\ q[i].segment_id = Max(Holders(ids, q[i].key))
                    /\ \E n \in DOMAIN files[q[i].segment_id].recs :
                          /\ files[q[i].segment_id].recs[n].key = q[i].key
                          /\ Decompress(files[q[i].segment_id].recs[n].val) = q[i].val]_vars

\* a merge over segments 0 and 1, each holding both keys in order, has just
\* been opened: it yields the two records of segment 1
C15_Witness ==
    /\ At(Worker, "rollover", "rewrite") /\ t_staged[Worker] = <<>>
    /\ t_ids[Worker] = {0, 1}
    /\ \A s \in {0, 1} : Len(files[s].recs) = 2 /\ files[s].recs[1].key < files[s].recs[2].key
    /\ Len(t_queue[Worker]) = 2
    /\ \A i \in 1..2 : t_queue[Worker][i].segment_id = 1

\* C16: from a state whose stale counters are those of a scan of the index, after
\* apply_gc_strategy(SpaceAmp(t)) has succeeded, drop_stale_segments has run and
\* the index has been scanned again, total_uncompressed_bytes /
\* (total_uncompressed_bytes - stale_bytes) <= t over the whole manifest.
C16_SpaceAmpReached ==
    [][(/\ h_rec # <<>> /\ h_rec[1].kind = "space_amp" /\ h_rec[1].phase = "sa_scan"
        /\ h_rec' # <<>> /\ h_rec'[1].phase = "sa_scanned")
        => AmpAtMost(total_bytes(segments'),
                     total_bytes(segments') - stale_bytes(segments'),
                     h_rec[1].target)]_vars
\* records of key k in the files of the registered segments
RecordsOf(k) ==
    {p \in UNION {{<<s, i>> : i \in DOMAIN files[s].recs} : s \in DOMAIN segments \cap DOMAIN files} :
        files[p[1]].recs[p[2]].key = k}

\* C17: after a scan, a successful major_compact and drop_stale_segments, with
\* no writer in between, no segment that the manifest held before the compaction
\* is left in the manifest or on disk, and the segments that remain hold exactly
\* one record for every key of the index and none for any other key, with no
\* item counted stale.
C17_FullCompaction ==
    (Followed("major") /\ h_rec[1].phase = "sa_dropped") =>
        /\ h_rec[1].before \cap (DOMAIN segments \cup DOMAIN files
                                    \cup ListedIds(manifest_file)) = {}
        /\ DOMAIN segments \subseteq DOMAIN files
        /\ \A k \in Keys : Cardinality(RecordsOf(k)) = IF k \in DOMAIN index THEN 1 ELSE 0
        /\ \A s \in DOMAIN segments : segments[s].stale_items = 0
        /\ SumOf([s \in DOMAIN segments |-> segments[s].meta.item_count], DOMAIN segments)
              = Cardinality(DOMAIN index)

\* a compaction of two or more segments that held more records than the index
\* has keys, followed by the drop
C17_Witness ==
    /\ Followed("major") /\ h_rec[1].phase = "sa_dropped"
    /\ Cardinality(h_rec[1].before) >= 2
    /\ h_rec[1].items > Cardinality(DOMAIN index)
    /\ Cardinality(DOMAIN index) = MaxKey
    /\ DOMAIN segments # {}

\* every key has at most one record in the files of the folder, and the index
\* binds the key of every record of a registered segment to that record
NoOverlap ==
    /\ \A k \in Keys :
          Cardinality({p \in UNION {{<<s, i>> : i \in DOMAIN files[s].recs} : s \in DOMAIN files} :
                          files[p[1]].recs[p[2]].key = k}) <= 1
    /\ \A s \in DOMAIN segments \cap DOMAIN files : \A i \in DOMAIN files[s].recs :
          LET k == files[s].recs[i].key
          IN /\ k \in DOMAIN index
             /\ index[k].h = [segment_id |-> s, offset |-> OffsetOf(files[s].recs, i)]
             /\ index[k].size = ValLen(Decompress(files[s].recs[i].val))

\* C18: when every key was written once and the index references every record
\* of the registered segments, a liveness scan that returns leaves every segment
\* with stale_items = 0 and stale_bytes = 0, whatever the number of files: the
\* space amplification is total / total and the stale ratio 0 / total.
C18_NoOverlapNoStale ==
    [][(/\ At(Scanner, "scan", "consume") /\ pc'[Scanner] = Idle
        /\ NoOverlap /\ segments # Empty)
        => /\ \A s \in DOMAIN segments : segments[s].stale_items = 0 /\ segments[s].stale_bytes = 0
           /\ stale_bytes(segments) = 0
           /\ total_bytes(segments) > 0]_vars

\* a scan over two registered segments with a record each, about to return
C18_Witness ==
    /\ At(Scanner, "scan", "consume") /\ t_ids[Scanner] = {}
    /\ NoOverlap
    /\ Cardinality(DOMAIN segments) >= 2
    /\ DOMAIN t_map[Scanner] = DOMAIN segments
    /\ \A s \in DOMAIN segments : t_map[Scanner][s].item_count > 0

\* every record of the registered file s has the handle its writer issued in
\* the index
AllIndexed(s) ==
    /\ s \in DOMAIN segments \cap DOMAIN files
    /\ Cardinality(RefKeys(s)) = Len(files[s].recs)

RECURSIVE IssuedFrom(_, _)
\* the first cnt of the keys ks by the offset of their handles, as cache entries
\* under the handles the writer handed out
IssuedFrom(ks, cnt) ==
    IF ks = {} \/ cnt = 0 THEN <<>>
    ELSE LET k == CHOOSE x \in ks : \A y \in ks : index[x].h.offset <= index[y].h.offset
         IN <<[vid |-> id, h |-> index[k].h, val |-> index[k].val]>>
            \o IssuedFrom(ks \ {k}, cnt - 1)

\* (h_j -> v_j) for i <= j <= min(i + n, m), h = h_i
Expected(h, n) ==
    IssuedFrom({k \in RefKeys(h.segment_id) : index[k].h.offset >= h.offset}, n + 1)

PrefetchedAsClaimed(h, n) ==
    /\ h_get'[1].ret.tag = "some"
    /\ \E k \in DOMAIN index : index[k].h = h /\ h_get'[1].ret.val = index[k].val
    /\ h_get'[1].ins = Expected(h, n)
    /\ blob_cache' \in InsertAll(blob_cache, Expected(h, n))

RewriteRound ==
    /\ At(Worker, "rollover", "rewrite") /\ t_queue[Worker] # <<>>
    /\ t_queue'[Worker] = Tail(t_queue[Worker])

\* the round wrote the entry into the new file and staged its new handle
Rewritten ==
    /\ t_writer'[Worker] # t_writer[Worker]
    /\ Len(t_staged'[Worker]) = Len(t_staged[Worker]) + 1
    /\ Last(t_staged'[Worker]).key = Head(t_queue[Worker]).key
    /\ Last(t_staged'[Worker]).val = Head(t_queue[Worker]).val
    /\ Last(t_staged'[Worker]).h = get_next_value_handle(t_writer[Worker][1])

\* C20: for each (key, value, source_segment_id) the merge produces, rollover
\* rewrites the record iff the index holds a handle for the key with
\* handle.segment_id <= source_segment_id; it drops the record when the index has
\* no handle for the key or when handle.segment_id > source_segment_id.
C20_KeepRule ==
    [][RewriteRound =>
          LET item == Head(t_queue[Worker])
          IN Rewritten <=> /\ item.key \in DOMAIN index
                           /\ index[item.key].h.segment_id <= item.segment_id]_vars

\* C20 as stated: rewritten iff handle.segment_id >= source_segment_id
C20_AsStated ==
    [][RewriteRound =>
          LET item == Head(t_queue[Worker])
          IN Rewritten <=> /\ item.key \in DOMAIN index
                           /\ index[item.key].h.segment_id >= item.segment_id]_vars

\* a rollover that has kept a record and is about to drop one whose key the
\* index binds into a newer segment
C20_Witness ==
    /\ At(Worker, "rollover", "rewrite")
    /\ t_staged[Worker] # <<>>
    /\ t_queue[Worker] # <<>>
    /\ Head(t_queue[Worker]).key \in DOMAIN index
    /\ index[Head(t_queue[Worker]).key].h.segment_id > Head(t_queue[Worker]).segment_id

\* index_writer.finish() returns Ok in this step
FinishReturnsOk == At(Worker, "rollover", "swapped") /\ pc'[Worker].at = "mark"

\* rollover marks one of its picked segments in this step
RolloverMarks ==
    /\ pc[Worker].op = "rollover" /\ pc'[Worker] # pc[Worker]
    /\ \E s \in t_ids[Worker] \cap DOMAIN segments : segments'[s] # segments[s]

\* C21: within a rollover the new segments are in the segment map and in the
\* manifest file before index_writer.finish() runs, and the picked segments are
\* marked only after finish() has returned Ok and committed its bindings; so
\* after every step each handle of the index refers to a segment of the
\* manifest, and no fully stale segment is pointed into by the index.
C21_Ordering ==
    [][/\ FinishReturnsOk =>
             /\ NewIds(t_writer[Worker]) \subseteq DOMAIN segments
             /\ NewIds(t_writer[Worker]) \subseteq ListedIds(manifest_file)
             /\ segments' = segments
       /\ RolloverMarks =>
             /\ At(Worker, "rollover", "mark")
             /\ t_staged[Worker] = <<>>
       /\ \A k \in DOMAIN index' : index'[k].h.segment_id \in DOMAIN segments'
       /\ \A s \in DOMAIN segments' :
             Segment_is_stale(segments'[s]) =>
                 {k \in DOMAIN index' : index'[k].h.segment_id = s} = {}]_vars

\* a rollover has committed its bindings into new segments and marked a picked
\* segment that held live records
C21_Witness ==
    /\ At(Worker, "rollover", "done")
    /\ \E s \in t_ids[Worker] \cap DOMAIN segments : Segment_is_stale(segments[s])
    /\ \E k \in DOMAIN index : index[k].h.segment_id \in NewIds(t_writer[Worker])
    /\ NewIds(t_writer[Worker]) \subseteq ListedIds(manifest_file)

\* C22: an I/O error in a round of rollover's rewrite loop makes rollover return
\* an error with the new files registered in the manifest and unreferenced by
\* the index, the old files unchanged and not marked stale.
C22_RewriteFails ==
    [][(At(Worker, "rollover", "rewrite") /\ pc'[Worker].at = "failed") =>
          /\ ChainIds(t_writer[Worker]) \subseteq DOMAIN segments'
          /\ ChainIds(t_writer[Worker]) \subseteq ListedIds(manifest_file')
          /\ \A k \in DOMAIN index' : index'[k].h.segment_id \notin ChainIds(t_writer[Worker])
          /\ \A s \in t_ids[Worker] :
                s \in DOMAIN segments' /\ segments'[s] = segments[s] /\ files'[s] = files[s]]_vars

\* C23: whenever consume_scan_result looks up the next id of the scan's size
\* map, that segment is in the manifest: "segment should exist" never fails.
C23_SegmentExists ==
    (At(Scanner, "scan", "consume") /\ t_ids[Scanner] # {} /\ ~SwapInProgress)
        => Min(t_ids[Scanner]) \in DOMAIN segments

\* handles of the records in the files of the registered segments
RegisteredHandles ==
    UNION {{[segment_id |-> s, offset |-> OffsetOf(files[s].recs, i)] :
               i \in DOMAIN files[s].recs} : s \in DOMAIN segments \cap DOMAIN files}

DropReturns == At(Worker, "drop", "swapped") /\ pc'[Worker] = Idle

\* the segments with stale_items = item_count
FullyStale(segs) == {s \in DOMAIN segs : segs[s].stale_items = segs[s].meta.item_count}

\* what drop_stale_segments does with the segments it collected and with the
\* others
DropsExactly ==
    /\ pc'[Worker].op = "drop" /\ pc[Worker] = Idle =>
          /\ t_ids'[Worker] = FullyStale(segments) /\ t_ids'[Worker] # {}
          /\ bytes_freed(segments)
                = SumOf([s \in DOMAIN segments |-> segments[s].meta.compressed_bytes],
                        FullyStale(segments))
    /\ pc[Worker].op = "drop" =>
          \A s \in DOMAIN segments \ t_ids[Worker] :
              /\ s \in DOMAIN segments' /\ segments'[s].meta = segments[s].meta
              /\ s \in DOMAIN files => s \in DOMAIN files' /\ files'[s] = files[s]
    /\ DropReturns =>
          t_ids[Worker] \cap (DOMAIN segments' \cup DOMAIN files'
                                \cup ListedIds(manifest_file')) = {}

\* C25: drop_stale_segments removes from the manifest and unlinks exactly the
\* segments with stale_items = item_count at the time of the call, leaves every
\* other segment registered with its file, returns the sum of their
\* compressed_bytes, and when it returns no registered segment is fully stale.
C25_DropExact ==
    [][/\ DropsExactly
       /\ DropReturns => FullyStale(segments') = {}]_vars


\* a segment that is fully stale after the step and was not before it
TurnsStale(s) ==
    /\ s \in DOMAIN segments' /\ Segment_is_stale(segments'[s])
    /\ s \in DOMAIN segments => ~Segment_is_stale(segments[s])

\* the round of consume_scan_result that handles s, with a counter of zero items
ZeroReferences(s) ==
    /\ At(Scanner, "scan", "consume") /\ t_ids[Scanner] # {}
    /\ s = Min(t_ids[Scanner]) /\ t_map[Scanner][s].item_count = 0

\* rollover's last step, with s among the picked segments
RewrittenBy(s) == At(Worker, "rollover", "mark") /\ s \in t_ids[Worker]

\* C26: every registered segment has item_count >= 1; a segment enters the
\* segment map (registration, recovery) with both stale counters at 0, so a
\* session starts with no fully stale segment; a segment becomes fully stale
\* only in a consume_scan_result round whose counter has zero items or in the
\* marking step of a rollover whose finish() succeeded; and
\* drop_stale_segments collects fully stale segments only.
C26_StaleOnlyByGc ==
    [][/\ \A s \in DOMAIN segments' :
             /\ segments'[s].meta.item_count >= 1
             /\ s \notin DOMAIN segments =>
                   segments'[s].stale_items = 0 /\ segments'[s].stale_bytes = 0
             /\ TurnsStale(s) => ZeroReferences(s) \/ RewrittenBy(s)
       /\ ~up /\ up' => StaleIds(segments') = {}
       /\ pc[Worker] = Idle /\ pc'[Worker].op = "drop" =>
             t_ids'[Worker] \subseteq StaleIds(segments)]_vars

\* in a session after a recovery, a drop has collected a segment
C26_Witness ==
    /\ crashes > 0 /\ up /\ pc[Worker].op = "drop" /\ t_ids[Worker] # {}


\* atomic_swap returns an error to its caller in this step
AtomicSwapErr == \E t \in Threads : pc[t].at \in SwapSteps /\ pc'[t] = Idle

\* C27: whenever no atomic_swap is in progress the ids of the segment map are
\* the ids listed in the vlog_manifest file; and when atomic_swap returns an
\* error the map is the one before the call and the file lists its ids still.
C27_Agreement ==
    [][/\ up' /\ ~SwapInProgress' => DOMAIN segments' = ListedIds(manifest_file')
       /\ AtomicSwapErr =>
             segments' = segments /\ ListedIds(manifest_file') = DOMAIN segments]_vars


\* C28: whenever the .vlog marker exists and no create_new is running, the
\* value log is fully initialised: segments/ and vlog_manifest exist, and while
\* the value log is closed open() would succeed through the recovery path.
C28_MarkerLast ==
    folder.marker # "absent" /\ pc[Worker].op # "create" =>
        /\ folder.segments_folder /\ folder.manifest
        /\ ~up => open_outcome(folder, manifest_file, files) = "Ok"


\* atomic_swap is persisting the id list: the temp file exists and has not
\* been renamed onto vlog_manifest yet
ManifestBeingWritten ==
    \E t \in Threads : pc[t].at \in {"swap_write", "swap_write_ids", "swap_rename"}

\* the handles whose get has to look the segment up and read the file
Uncached == {h \in KnownHandles : CacheHit(id, h) = {} /\ GetResult(h).tag = "some"}

\* C29: while atomic_swap writes the manifest file a reader of the segment map
\* is not blocked: get of a registered, uncached handle can take its step.
C29_ReadersNotBlocked ==
    up /\ ManifestBeingWritten => \A h \in Uncached : ENABLED Get(h)


\* a thread inside atomic_swap whose next step does not wait for anything
SwapRuns == \E t \in Threads : pc[t].at \in SwapSteps /\ (ENABLED SwapStep(t) \/ ENABLED SwapPublish(t))

AmpNotAbove(segs, t) ==
    LET total == total_bytes(segs)
        alive == total - stale_bytes(segs)
    IN total = 0 \/ alive = 0 \/ AmpAtMost(total, alive, t)

\* C31: whenever space_amp() is at most the target, equal to it included,
\* SpaceAmpStrategy(target).pick returns the empty selection.
C31_PickNoneAtTarget ==
    up => \A t \in Targets :
            AmpNotAbove(segments, t) => SpaceAmp_pick(segments, t) = {{}}


\* every segment id in use: files of segments/, the segment map, the manifest
\* file and the files of the writers at work
IdsInUse ==
    DOMAIN files \cup DOMAIN segments \cup ListedIds(manifest_file)
    \cup ChainIds(writer) \cup UNION {ChainIds(t_writer[t]) : t \in Threads}

\* C32: within one instance the generator never goes back, each step hands out
\* exactly the ids from the generator's old value up to its new one, each to a
\* new file, and every id in use is below the generator; recovery starts the
\* generator at the highest id of the manifest plus one.
C32_UniqueIds ==
    [][/\ up /\ up' =>
             /\ id_generator' >= id_generator
             /\ DOMAIN files' \ DOMAIN files = id_generator..(id_generator' - 1)
             /\ (IdsInUse' \ IdsInUse) \cap ListedIds(manifest_file) = {}
       /\ ~up /\ up' /\ folder.marker = "v1" =>
             id_generator' = Max(ListedIds(manifest_file) \cup {0}) + 1
       /\ up' => \A s \in IdsInUse' : s < id_generator']_vars

\* after a recovery a writer has created a file next to registered ones
C32_Witness ==
    /\ up /\ crashes > 0 /\ ListedIds(manifest_file) # {}
    /\ \E s \in ChainIds(writer) : s \in DOMAIN files /\ s > Max(ListedIds(manifest_file))


\* the value of the record that starts at h in the files of this value log
StoredValue(h) ==
    Decompress(files[h.segment_id].recs[RecordAt(files[h.segment_id].recs, h.offset)].val)

RoundInBounds ==
    At(Scanner, "scan", "consume") /\ t_ids[Scanner] # {}
    /\ Min(t_ids[Scanner]) \in DOMAIN segments =>
        LET s == Min(t_ids[Scanner])
        IN /\ t_map[Scanner][s].size <= segments[s].meta.total_uncompressed_bytes
           /\ t_map[Scanner][s].item_count <= segments[s].meta.item_count

\* C34: with an index that yields each live handle once, with the length of
\* the value stored, every registered segment has 0 <= stale_items <= item_count
\* and 0 <= stale_bytes <= total_uncompressed_bytes, the manifest's stale_bytes
\* is at most its total_bytes, and no subtraction of consume_scan_result goes
\* below zero.
C34_CountersInBounds ==
    /\ \A s \in DOMAIN segments :
          /\ 0 <= segments[s].stale_items
          /\ segments[s].stale_items <= segments[s].meta.item_count
          /\ 0 <= segments[s].stale_bytes
          /\ segments[s].stale_bytes <= segments[s].meta.total_uncompressed_bytes
    /\ stale_bytes(segments) <= total_bytes(segments)
    /\ RoundInBounds

\* a scan has left a segment partly stale
C34_Witness ==
    \E s \in DOMAIN segments :
        /\ 0 < segments[s].stale_items /\ segments[s].stale_items < segments[s].meta.item_count
        /\ 0 < segments[s].stale_bytes


\* scan_for_stats returns the iterator's error in this step
ScanErr == At(Scanner, "scan", "scan") /\ pc'[Scanner].at = "failed"

\* C35: when the index iterator yields an error, scan_for_stats returns an
\* error with no stale counter, no segment and no file changed, the manifest
\* file as it was and the gate free; the scanner that failed does not hold the
\* gate afterwards.
C35_ScanError ==
    [][/\ ScanErr =>
             /\ segments' = segments /\ manifest_file' = manifest_file
             /\ files' = files /\ index' = index
             /\ rollover_guard = Scanner /\ rollover_guard' = Free
       /\ pc'[Scanner].at = "failed" => rollover_guard' # Scanner]_vars

\* after the failed scan, before its caller goes on, another operation has
\* taken the gate
C35_Witness ==
    At(Scanner, "scan", "failed") /\ rollover_guard = Worker /\ pc[Worker].op = "drop"


\* a rollover call begins in this step
RolloverCalled == pc[Worker] = Idle /\ pc'[Worker].op = "rollover"

\* C36: a rollover call with no ids, or with an id that is not in the segment
\* map, returns Ok(0) having changed nothing: no id taken from the generator,
\* no file created, no segment registered or marked, nothing staged or bound
\* in the index, the gate as it was; any other rollover call goes on to
\* obtain its writer.
C36_NoopRollover ==
    [][RolloverCalled =>
         IF t_ids'[Worker] = {} \/ ~(t_ids'[Worker] \subseteq DOMAIN segments)
         THEN /\ pc'[Worker].at = "noop"
              /\ id_generator' = id_generator /\ files' = files
              /\ segments' = segments /\ manifest_file' = manifest_file
              /\ index' = index /\ t_staged' = t_staged /\ t_writer' = t_writer
              /\ rollover_guard' = rollover_guard
         ELSE pc'[Worker].at = "rewrite" /\ id_generator' = id_generator + 1]_vars

\* rollover of a registered segment together with an id that was handed out
\* and is not, or no longer, registered has returned Ok(0)
C36_Witness ==
    /\ At(Worker, "rollover", "noop")
    /\ t_ids[Worker] \cap DOMAIN segments # {}
    /\ \E s \in t_ids[Worker] : s \notin DOMAIN segments /\ s \notin DOMAIN files /\ s < id_generator


\* the ids of the files of thread t's writer chain that received no record
EmptyOf(t) == IF t_writer[t] = <<>> THEN {} ELSE EmptyWriterIds(t_writer[t][1].writers)

\* C37: every segment of the map and every id of the manifest file belongs to
\* a file with at least one record; SegmentManifest::register, for
\* register_writer and for rollover, unlinks the file of each writer of the
\* chain that wrote nothing and puts its id neither into the working copy
\* nor, when the swap is through, into the map or the manifest file.
C37_NoEmptySegments ==
    [][/\ \A s \in DOMAIN segments' : segments'[s].meta.item_count >= 1
       /\ \A t \in Threads :
             /\ pc[t].at = "recipe" /\ pc'[t].at = "swap_create" =>
                   /\ EmptyOf(t) \cap DOMAIN files' = {}
                   /\ EmptyOf(t) \cap DOMAIN t_swap'[t][1] = {}
                   /\ \A s \in DOMAIN t_swap'[t][1] : t_swap'[t][1][s].meta.item_count >= 1
             /\ pc[t].at = "swap_publish" /\ pc'[t].at = "swapped" =>
                   /\ EmptyOf(t) \cap DOMAIN segments' = {}
                   /\ EmptyOf(t) \cap ListedIds(manifest_file') = {}
                   /\ \A s \in ListedIds(manifest_file') :
                         s \in DOMAIN segments' /\ segments'[s].meta.item_count >= 1]_vars

\* a chain whose first file was filled and registered and whose last file,
\* opened by the rotation, received nothing and is gone
C37_Witness ==
    \E t \in Threads :
        /\ pc[t].at = "swapped" /\ pc[t].op \in {"register", "rollover"}
        /\ EmptyOf(t) # {} /\ EmptyOf(t) \cap DOMAIN files = {}
        /\ NewIds(t_writer[t]) # {} /\ NewIds(t_writer[t]) \subseteq DOMAIN segments


\* the chain of a multi-writer (<<>> or <<mw>>) between two writes
ChainRotated(opt, fs) ==
    opt # <<>> =>
        LET ws == opt[1].writers
        IN /\ Last(ws).offset < TargetSize
           /\ \A i \in 1..(Len(ws) - 1) :
                 /\ ws[i].offset >= TargetSize /\ ws[i].item_count >= 1
                 /\ ws[i].segment_id \in DOMAIN fs =>
                       fs[ws[i].segment_id].complete /\ fs[ws[i].segment_id].recs = ws[i].recs
           /\ \A i, j \in 1..Len(ws) : i < j => ws[i].segment_id < ws[j].segment_id

\* a file of the chain that has reached the target size is written no more
ChainSealed(opt, optn) ==
    opt # <<>> /\ optn # <<>> =>
        \A i \in 1..Len(opt[1].writers) :
            opt[1].writers[i].offset >= TargetSize =>
                i <= Len(optn[1].writers) /\ optn[1].writers[i] = opt[1].writers[i]

\* C38: between writes the active file of every multi-writer is below the
\* target size, every earlier file of its chain has reached it, holds a record
\* and is flushed, the ids of the chain ascend, and a file that has reached
\* the target size receives no further record.
C38_Rotation ==
    [][/\ ChainRotated(writer, files)' /\ ChainSealed(writer, writer')
       /\ \A t \in Threads :
             ChainRotated(t_writer[t], files)' /\ ChainSealed(t_writer[t], t_writer'[t])]_vars

\* a write has filled the first file, and the next record went to the file
\* the rotation opened
C38_Witness ==
    /\ writer # <<>> /\ Len(writer[1].writers) = 2
    /\ writer[1].writers[1].item_count = 1 /\ writer[1].writers[2].item_count = 1


KeysWritten(s) == {files[s].recs[i].key : i \in DOMAIN files[s].recs}

\* C40: the key_range of every registered segment is the pair of the smallest
\* and the largest key among the records written into its file, in whatever
\* order the keys were written.
C40_KeyRangeIsMinMax ==
    \A s \in DOMAIN segments \cap DOMAIN files :
        KeysWritten(s) # {} =>
            segments[s].meta.key_range = <<Min(KeysWritten(s)), Max(KeysWritten(s))>>

====
